---- MODULE Spec2Model ----
(***************************************************************************)
(* OliLab SLMS client: the application state store (InventoryProvider),    *)
(* its uniform mutation protocol (handleApiCall), and the session guard    *)
(* (AuthProvider).  The backend is external: its responses are drawn from  *)
(* small sets of entity values.                                            *)
(***************************************************************************)
EXTENDS Integers, Sequences, FiniteSets, TLC

\* ---------------------------------------------------------------- bounds
MaxOps == 2        \* mutations and logins issued in one behaviour
MaxQty == 1        \* largest availableQuantity the backend reports
MaxImport == 1     \* longest array an import returns

\* ------------------------------------------------------- entity universes
ItemIds == {"i1", "i2"}
UserIds == {"u1", "u2"}
LogIds == {"l1", "l2"}
NotifIds == {"n1", "n2"}
SuggIds == {"s1", "s2"}
CommentIds == {"c1", "c2"}

APPROVED == "APPROVED"
UserStatuses == {APPROVED, "PENDING"}
Names == {"Ann", "Bea"}

ItemVals == [id : ItemIds, availableQuantity : 0..MaxQty]
SecureUsers == [id : UserIds, status : UserStatuses, fullName : Names]
LogVals == [id : LogIds, status : {"PENDING", "APPROVED"}]
NotifVals == [id : NotifIds, read : BOOLEAN]
SuggVals == [id : SuggIds, status : {"PENDING", "APPROVED"}]
CommentVals == [id : CommentIds]

\* a user as the backend may send it when it fails to omit the credential
WithPassword(u) == [f \in DOMAIN u \cup {"password"} |->
                      IF f = "password" THEN "secret" ELSE u[f]]

Null == [null |-> TRUE]

\* ------------------------------------------------------------- snapshot
initialEmptyState ==
  [items |-> <<>>, users |-> <<>>, logs |-> <<>>,
   notifications |-> <<>>, suggestions |-> <<>>, comments |-> <<>>]

\* full states the backend may answer GET /data with; its users are User
\* values, credential included (effect 2 of AuthProvider strips it)
LabState ==
  [items |-> <<[id |-> "i1", availableQuantity |-> 1]>>,
   users |-> <<WithPassword([id |-> "u1", status |-> APPROVED, fullName |-> "Ann"]),
               WithPassword([id |-> "u2", status |-> "PENDING", fullName |-> "Bea"])>>,
   logs |-> <<[id |-> "l1", status |-> "PENDING"]>>,
   notifications |-> <<[id |-> "n1", read |-> FALSE]>>,
   suggestions |-> <<[id |-> "s1", status |-> "PENDING"]>>,
   comments |-> <<>>]

InitialData == {initialEmptyState, LabState}

\* error messages apiFetch fails with: helpfulError's, in short, and the one
\* given to an error body that is JSON and names no message
ConnectionUnavailable == "Could not connect to the backend server"
RequestFailed == "An unknown server error occurred."
ApiErrors == {ConnectionUnavailable, RequestFailed}

NoError == "null"
NeverSynced == 0

VARIABLES
  state,            \* the snapshot: six collections
  isLoading,        \* InventoryProvider.isLoading
  connectionError,  \* InventoryProvider.connectionError (NoError = null)
  syncStatus,       \* 'synced' | 'syncing' | 'error'
  lastSynced,       \* Date of the last successful sync (NeverSynced = null)
  now,              \* the wall clock new Date() reads
  loadInFlight,     \* a GET /data round trip is outstanding
  pending,          \* mutation round trips in flight: rid -> [op, payload,
                    \* served, answer]; answer is set once the backend has
                    \* handled the request
  issued,           \* round trips issued so far (the next request id)
  delivered,        \* the last response the API client handed back
  outcome,          \* the last settlement handed to a caller
  server            \* the backend's current state, which GET /data answers with

storeVars == <<state, isLoading, connectionError, syncStatus, lastSynced, now,
               loadInFlight, pending, issued, delivered, outcome, server>>

VARIABLES
  currentUser,      \* AuthProvider.currentUser (Null = null)
  heldRef,          \* which object currentUser is: React compares state and
                    \* dependencies by identity, and a new object differs
                    \* from the one held before
  authIsLoading,    \* AuthProvider.isLoading: the guard is Unresolved
  session,          \* sessionStorage[SESSION_STORAGE_KEY]
  revalidate,       \* effect 2 is due: one of its dependencies changed
  logins            \* login round trips in flight: [identifier]

authVars == <<currentUser, heldRef, authIsLoading, session, revalidate, logins>>

VARIABLES
  mails             \* notification dispatches fired: rid -> [kind, about, status]

VARIABLES
  fetchCall,        \* apiFetch: the call under way and what the network does with it
  fetchResult,      \* apiFetch: what the returned promise settled with
  localStorage,     \* localStorage[SETTINGS_STORAGE_KEY]
  settings,         \* the argument of the last saveSettings
  loadedSettings,   \* what the last loadSettings returned
  dashboard,        \* the snapshot Dashboard renders
  recentLogs        \* Dashboard.recentLogs

VARIABLES
  settingsState,    \* SettingsProvider.settings
  settingsEffects,  \* SettingsProvider's effects that are due: [load, save]
  layout,           \* what AppLayout renders with: router.pathname and useAuth()
  redirect          \* what AppLayout's guard effect last saw and did

viewVars == <<settingsState, settingsEffects, layout, redirect>>

pureVars == <<fetchCall, fetchResult, localStorage, settings, loadedSettings,
              dashboard, recentLogs, viewVars>>

sideVars == <<mails, pureVars>>

vars == <<storeVars, authVars, sideVars>>

\* mutant: an entity whose id the collection lacks is pushed at the end
ReplaceByIdUpsert(xs, e) ==
  IF \E k \in 1..Len(xs) : xs[k].id = e.id
  THEN [k \in 1..Len(xs) |-> IF xs[k].id = e.id THEN e ELSE xs[k]]
  ELSE Append(xs, e)

\* mutant: the replaced entity is taken out and pushed at the end,
\* [...prev.xs.filter(x => x.id !== e.id), e], when the collection holds its id
ReplaceByIdMovesLast(xs, e) ==
  IF \E k \in 1..Len(xs) : xs[k].id = e.id
  THEN Append(SelectSeq(xs, LAMBDA x : x.id # e.id), e)
  ELSE xs

\* ------------------------------------------------------- patch helpers
\* prev.xs.map(x => x.id === e.id ? e : x)
ReplaceById(xs, e) ==
  [k \in 1..Len(xs) |-> IF xs[k].id = e.id THEN e ELSE xs[k]]

\* prev.xs.filter(x => x.id !== id)
RemoveById(xs, id) == SelectSeq(xs, LAMBDA x : x.id # id)

\* ------------------------------------ the updateState callback of each mutation
\* mutant: an item whose id the snapshot already holds replaces that item
addItemUpdateUpsert(prev, newItem) ==
  IF \E k \in 1..Len(prev.items) : prev.items[k].id = newItem.id
  THEN [prev EXCEPT !.items = ReplaceById(prev.items, newItem)]
  ELSE [prev EXCEPT !.items = Append(prev.items, newItem)]

addItemUpdate(prev, newItem) ==
  [prev EXCEPT !.items = Append(prev.items, newItem)]

editItemUpdate(prev, updatedItem) ==
  [prev EXCEPT !.items = ReplaceById(prev.items, updatedItem)]

\* mutant: removal by position, splice(findIndex(...), 1): an id that is not
\* found gives position -1, which removes the last item
deleteItemUpdateSplice(prev, deletedItemId) ==
  IF \E k \in 1..Len(prev.items) : prev.items[k].id = deletedItemId.id
  THEN [prev EXCEPT !.items = RemoveById(prev.items, deletedItemId.id)]
  ELSE [prev EXCEPT !.items = SubSeq(prev.items, 1, Len(prev.items) - 1)]

deleteItemUpdate(prev, deletedItemId) ==
  [prev EXCEPT !.items = RemoveById(prev.items, deletedItemId.id)]

\* mutant: the user is added, the notification that came with it dropped
createUserUpdateNoNotification(prev, res) ==
  [prev EXCEPT !.users = Append(prev.users, res.newUser)]

createUserUpdate(prev, res) ==
  [prev EXCEPT !.users = Append(prev.users, res.newUser),
               !.notifications = <<res.newNotification>> \o prev.notifications]

editUserUpdate(prev, updatedUser) ==
  [prev EXCEPT !.users = ReplaceById(prev.users, updatedUser)]

deleteUserUpdate(prev, deletedUserId) ==
  [prev EXCEPT !.users = RemoveById(prev.users, deletedUserId.id)]

approveUserUpdate(prev, approvedUser) ==
  [prev EXCEPT !.users = ReplaceById(prev.users, approvedUser)]

denyUserUpdate(prev, deniedUser) ==
  [prev EXCEPT !.users = ReplaceById(prev.users, deniedUser)]

requestBorrowItemUpdate(prev, res) ==
  [prev EXCEPT !.logs = <<res.newLog>> \o prev.logs,
               !.notifications = <<res.newNotification>> \o prev.notifications]

\* mutant: the log is patched, the item forgotten
approveBorrowRequestUpdateLogOnly(prev, res) ==
  [prev EXCEPT !.logs = ReplaceById(prev.logs, res.updatedLog)]

\* mutant: the client decrements the quantity it holds instead of taking the
\* answered item
approveBorrowRequestUpdateLocalDecrement(prev, res) ==
  [prev EXCEPT !.logs = ReplaceById(prev.logs, res.updatedLog),
               !.items = [k \in 1..Len(prev.items) |->
                            IF prev.items[k].id = res.updatedItem.id
                            THEN [prev.items[k] EXCEPT !.availableQuantity =
                                    IF @ > 0 THEN @ - 1 ELSE 0]
                            ELSE prev.items[k]]]

approveBorrowRequestUpdate(prev, res) ==
  [prev EXCEPT !.logs = ReplaceById(prev.logs, res.updatedLog),
               !.items = ReplaceById(prev.items, res.updatedItem)]

denyBorrowRequestUpdate(prev, updatedLog) ==
  [prev EXCEPT !.logs = ReplaceById(prev.logs, updatedLog)]

\* mutant: the return log is added, the borrow log left as it was
returnItemUpdateNoBorrowLog(prev, res) ==
  [prev EXCEPT !.logs = <<res.returnLog>> \o prev.logs,
               !.items = ReplaceById(prev.items, res.updatedItem)]

returnItemUpdate(prev, res) ==
  [prev EXCEPT !.logs = <<res.returnLog>> \o ReplaceById(prev.logs, res.updatedBorrowLog),
               !.items = ReplaceById(prev.items, res.updatedItem)]

requestItemReturnUpdate(prev, res) ==
  [prev EXCEPT !.logs = ReplaceById(prev.logs, res.updatedLog),
               !.notifications = <<res.newNotification>> \o prev.notifications]

\* mutant: every notification is marked read, whatever ids came back
markNotificationsAsReadUpdateAll(prev, readIds) ==
  [prev EXCEPT !.notifications =
     [k \in 1..Len(prev.notifications) |->
        [prev.notifications[k] EXCEPT !.read = TRUE]]]

\* readIds is the echoed id array; only readIds.includes(n.id) is asked of it
markNotificationsAsReadUpdate(prev, readIds) ==
  [prev EXCEPT !.notifications =
     [k \in 1..Len(prev.notifications) |->
        IF prev.notifications[k].id \in readIds.ids
        THEN [prev.notifications[k] EXCEPT !.read = TRUE]
        ELSE prev.notifications[k]]]

addSuggestionUpdate(prev, newSuggestion) ==
  [prev EXCEPT !.suggestions = <<newSuggestion>> \o prev.suggestions]

\* mutant: the suggestion is marked, the item it asked for never added
approveItemSuggestionUpdateNoItem(prev, res) ==
  [prev EXCEPT !.suggestions = ReplaceById(prev.suggestions, res.updatedSuggestion)]

approveItemSuggestionUpdate(prev, res) ==
  [prev EXCEPT !.suggestions = ReplaceById(prev.suggestions, res.updatedSuggestion),
               !.items = Append(prev.items, res.newItem)]

approveFeatureSuggestionUpdate(prev, updatedSuggestion) ==
  [prev EXCEPT !.suggestions = ReplaceById(prev.suggestions, updatedSuggestion)]

denySuggestionUpdate(prev, res) ==
  [prev EXCEPT !.suggestions = ReplaceById(prev.suggestions, res.updatedSuggestion),
               !.comments = <<res.newComment>> \o prev.comments]

importItemsUpdate(prev, newItems) ==
  [prev EXCEPT !.items = prev.items \o newItems]

addCommentUpdate(prev, newComment) ==
  [prev EXCEPT !.comments = <<newComment>> \o prev.comments]

\* the callback handleApiCall is given by the mutation named op
UpdateState(op, prev, res) ==
  CASE op = "addItem" -> addItemUpdate(prev, res)
    [] op = "editItem" -> editItemUpdate(prev, res)
    [] op = "deleteItem" -> deleteItemUpdate(prev, res)
    [] op = "createUser" -> createUserUpdate(prev, res)
    [] op = "editUser" -> editUserUpdate(prev, res)
    [] op = "deleteUser" -> deleteUserUpdate(prev, res)
    [] op = "approveUser" -> approveUserUpdate(prev, res)
    [] op = "denyUser" -> denyUserUpdate(prev, res)
    [] op = "requestBorrowItem" -> requestBorrowItemUpdate(prev, res)
    [] op = "approveBorrowRequest" -> approveBorrowRequestUpdate(prev, res)
    [] op = "denyBorrowRequest" -> denyBorrowRequestUpdate(prev, res)
    [] op = "returnItem" -> returnItemUpdate(prev, res)
    [] op = "requestItemReturn" -> requestItemReturnUpdate(prev, res)
    [] op = "markNotificationsAsRead" -> markNotificationsAsReadUpdate(prev, res)
    [] op = "addSuggestion" -> addSuggestionUpdate(prev, res)
    [] op = "approveItemSuggestion" -> approveItemSuggestionUpdate(prev, res)
    [] op = "approveFeatureSuggestion" -> approveFeatureSuggestionUpdate(prev, res)
    [] op = "denySuggestion" -> denySuggestionUpdate(prev, res)
    [] op = "importItems" -> importItemsUpdate(prev, res)
    [] op = "addComment" -> addCommentUpdate(prev, res)

\* ---------------------------------------------- the backend's answers
SeqsUpTo(S, n) == UNION {[1..k -> S] : k \in 0..n}

\* what the API operation behind request r may resolve with
Responses(r) ==
  CASE r.op \in {"addItem", "editItem"} -> ItemVals
    [] r.op = "deleteItem" -> [id : ItemIds]
    [] r.op = "createUser" -> [newUser : SecureUsers, newNotification : NotifVals]
    [] r.op \in {"editUser", "approveUser", "denyUser"} -> SecureUsers
    [] r.op = "deleteUser" -> [id : UserIds]
    [] r.op = "requestBorrowItem" -> [newLog : LogVals, newNotification : NotifVals]
    [] r.op = "approveBorrowRequest" -> [updatedLog : LogVals, updatedItem : ItemVals]
    [] r.op = "denyBorrowRequest" -> LogVals
    [] r.op = "returnItem" ->
         [returnLog : LogVals, updatedBorrowLog : LogVals, updatedItem : ItemVals]
    [] r.op = "requestItemReturn" -> [updatedLog : LogVals, newNotification : NotifVals]
    [] r.op = "markNotificationsAsRead" -> {r.payload}
    [] r.op = "addSuggestion" -> SuggVals
    [] r.op = "approveItemSuggestion" -> [updatedSuggestion : SuggVals, newItem : ItemVals]
    [] r.op = "approveFeatureSuggestion" -> SuggVals
    [] r.op = "denySuggestion" -> [updatedSuggestion : SuggVals, newComment : CommentVals]
    [] r.op = "importItems" -> SeqsUpTo(ItemVals, MaxImport)
    [] r.op = "addComment" -> CommentVals

\* api.markNotificationsAsRead makes no request: Promise.resolve(notificationIds)
IsSimulated(op) == op = "markNotificationsAsRead"

\* only a request that is sent can fail
CanFail(r) == ~IsSimulated(r.op)

\* --------------------------------------------------------- the render gate
\* mutant: the gate forgets the connection-error screen
ExposedWhileError == ~isLoading

\* InventoryProvider renders its children (AuthProvider and the pages)
Exposed == ~isLoading /\ connectionError = NoError

\* consumers act once the guard's mount effects have run
Interactive == Exposed /\ ~authIsLoading

\* ------------------------------------------------------------- full load
\* error.message || 'An unknown error occurred.'
MessageOf(e) == IF e = "" THEN "An unknown error occurred." ELSE e

\* loadData, the try branch: GET /data answered with initialState
loadDataOk ==
  /\ loadInFlight
  /\ LET initialState == server
     IN /\ state' = initialState
        /\ now' = now + 1
        /\ lastSynced' = now'
        /\ syncStatus' = "synced"
        /\ isLoading' = FALSE
        /\ loadInFlight' = FALSE
  /\ UNCHANGED <<connectionError, pending, issued, delivered, outcome, server>>
  /\ UNCHANGED authVars
  /\ UNCHANGED sideVars

\* loadData, the catch branch
loadDataFail ==
  /\ loadInFlight
  /\ \E error \in ApiErrors :
       /\ connectionError' = MessageOf(error)
       /\ syncStatus' = "error"
       /\ isLoading' = FALSE
       /\ loadInFlight' = FALSE
  /\ UNCHANGED <<state, lastSynced, now, pending, issued, delivered, outcome, server>>
  /\ UNCHANGED authVars
  /\ UNCHANGED sideVars

\* mutant: the retry leaves the error message in place
handleRetryKeepsError ==
  /\ ~isLoading
  /\ connectionError # NoError
  /\ isLoading' = TRUE
  /\ loadInFlight' = TRUE
  /\ UNCHANGED <<state, connectionError, syncStatus, lastSynced, now, pending, issued,
                 delivered, outcome, server>>
  /\ UNCHANGED authVars
  /\ UNCHANGED sideVars

\* ConnectionError.handleRetry -> onRetry = loadData, up to its await
handleRetry ==
  /\ ~isLoading
  /\ connectionError # NoError
  /\ isLoading' = TRUE
  /\ connectionError' = NoError
  /\ loadInFlight' = TRUE
  /\ UNCHANGED <<state, syncStatus, lastSynced, now, pending, issued, delivered,
                 outcome, server>>
  /\ UNCHANGED authVars
  /\ UNCHANGED sideVars

\* ---------------------------------------------------------- handleApiCall
Without(f, r) == [x \in DOMAIN f \ {r} |-> f[x]]

UserOps == {"createUser", "editUser", "deleteUser", "approveUser", "denyUser"}

\* mutant: the call is issued without marking the status
handleApiCallBeginUnmarked(op, payload) ==
  /\ Interactive
  /\ issued < MaxOps
  /\ issued' = issued + 1
  /\ pending' = pending @@ (issued' :> [op |-> op, payload |-> payload,
                                        served |-> FALSE, answer |-> Null])
  /\ UNCHANGED <<state, isLoading, connectionError, syncStatus, lastSynced, now,
                 loadInFlight, delivered, outcome, server>>
  /\ UNCHANGED authVars
  /\ UNCHANGED sideVars

\* mutant: an optimistic update, the payload written before the answer
handleApiCallBeginOptimistic(op, payload) ==
  /\ Interactive
  /\ issued < MaxOps
  /\ syncStatus' = "syncing"
  /\ issued' = issued + 1
  /\ pending' = pending @@ (issued' :> [op |-> op, payload |-> payload,
                                        served |-> FALSE, answer |-> Null])
  /\ state' = IF op = "editItem"
              THEN [state EXCEPT !.items = ReplaceById(state.items, payload)]
              ELSE state
  /\ UNCHANGED <<isLoading, connectionError, lastSynced, now,
                 loadInFlight, delivered, outcome, server>>
  /\ UNCHANGED authVars
  /\ UNCHANGED sideVars

\* handleApiCall up to its await: setSyncStatus('syncing'), then apiCall()
handleApiCallBegin(op, payload) ==
  /\ Interactive
  /\ issued < MaxOps
  /\ syncStatus' = "syncing"
  /\ issued' = issued + 1
  /\ pending' = pending @@ (issued' :> [op |-> op, payload |-> payload,
                                        served |-> FALSE, answer |-> Null])
  /\ UNCHANGED <<state, isLoading, connectionError, lastSynced, now,
                 loadInFlight, delivered, outcome, server>>
  /\ UNCHANGED authVars
  /\ UNCHANGED sideVars

\* what the mutation resolves to: createUser returns newUserId, the others void
ReturnValue(op, result) == IF op = "createUser" THEN result.newUser.id ELSE "void"

\* the mutations whose patch is accompanied by a notification dispatch
Dispatches(op) == op \in {"createUser", "approveUser", "denyUser"}

\* the dispatch a mutation fires with its patch: which notification, about
\* which user; nothing keeps or awaits what the call returns
Dispatch(op, result) ==
  [kind |-> CASE op = "createUser" -> "sendNewUserAdminNotification"
              [] op = "approveUser" -> "sendAccountApprovedNotification"
              [] op = "denyUser" -> "sendAccountDeniedNotification",
   about |-> IF op = "createUser" THEN result.newUser.id ELSE result.id,
   status |-> "fired"]

\* mutant: the answer of a call issued before one already applied is dropped
handleApiCallThenDropStale(rid, result) ==
  /\ state' = IF delivered.ok /\ delivered.rid > rid
              THEN state
              ELSE UpdateState(pending[rid].op, state, result)
  /\ syncStatus' = "synced"
  /\ now' = now + 1
  /\ lastSynced' = now'
  /\ pending' = Without(pending, rid)
  /\ delivered' = [rid |-> rid, ok |-> TRUE, http |-> ~IsSimulated(pending[rid].op),
                   body |-> result, error |-> NoError]
  /\ outcome' = [rid |-> rid, op |-> pending[rid].op, kind |-> "resolved",
                 value |-> ReturnValue(pending[rid].op, result)]
  /\ revalidate' = (revalidate \/ pending[rid].op \in UserOps)
  /\ UNCHANGED <<isLoading, connectionError, loadInFlight, issued>>
  /\ UNCHANGED <<currentUser, heldRef, authIsLoading, session, logins>>
  /\ mails' = IF Dispatches(pending[rid].op)
              THEN mails @@ (rid :> Dispatch(pending[rid].op, result))
              ELSE mails
  /\ UNCHANGED pureVars

\* mutant: the callback awaits the dispatch, so a dispatch that fails lands in
\* the catch branch after the patch was applied
handleApiCallThenAwaitsDispatch(rid, result) ==
  \E sent \in BOOLEAN :
     LET failed == Dispatches(pending[rid].op) /\ ~sent
     IN /\ state' = UpdateState(pending[rid].op, state, result)
        /\ syncStatus' = IF failed THEN "error" ELSE "synced"
        /\ now' = IF failed THEN now ELSE now + 1
        /\ lastSynced' = IF failed THEN lastSynced ELSE now'
        /\ pending' = Without(pending, rid)
        /\ delivered' = [rid |-> rid, ok |-> TRUE, http |-> ~IsSimulated(pending[rid].op),
                         body |-> result, error |-> NoError]
        /\ outcome' = IF failed
                      THEN [rid |-> rid, op |-> pending[rid].op, kind |-> "rejected",
                            value |-> "dispatch failed"]
                      ELSE [rid |-> rid, op |-> pending[rid].op, kind |-> "resolved",
                            value |-> ReturnValue(pending[rid].op, result)]
        /\ revalidate' = (revalidate \/ pending[rid].op \in UserOps)
        /\ UNCHANGED <<isLoading, connectionError, loadInFlight, issued>>
        /\ UNCHANGED <<currentUser, heldRef, authIsLoading, session, logins>>
        /\ mails' = IF Dispatches(pending[rid].op)
                    THEN mails @@ (rid :> [Dispatch(pending[rid].op, result) EXCEPT
                                             !.status = IF sent THEN "sent" ELSE "failed"])
                    ELSE mails
        /\ UNCHANGED pureVars

\* handleApiCall after the await, the try branch, for request rid and its result
handleApiCallThen(rid, result) ==
  /\ state' = UpdateState(pending[rid].op, state, result)
  /\ syncStatus' = "synced"
  /\ now' = now + 1
  /\ lastSynced' = now'
  /\ pending' = Without(pending, rid)
  /\ delivered' = [rid |-> rid, ok |-> TRUE, http |-> ~IsSimulated(pending[rid].op),
                   body |-> result, error |-> NoError]
  /\ outcome' = [rid |-> rid, op |-> pending[rid].op, kind |-> "resolved",
                 value |-> ReturnValue(pending[rid].op, result)]
  /\ revalidate' = (revalidate \/ pending[rid].op \in UserOps)
  /\ UNCHANGED <<isLoading, connectionError, loadInFlight, issued>>
  /\ UNCHANGED <<currentUser, heldRef, authIsLoading, session, logins>>
  /\ mails' = IF Dispatches(pending[rid].op)
              THEN mails @@ (rid :> Dispatch(pending[rid].op, result))
              ELSE mails
  /\ UNCHANGED pureVars

\* mutant: the catch branch swallows the error
handleApiCallCatchSwallow(rid, error) ==
  /\ syncStatus' = "error"
  /\ pending' = Without(pending, rid)
  /\ delivered' = [rid |-> rid, ok |-> FALSE, http |-> TRUE, body |-> Null, error |-> error]
  /\ outcome' = [rid |-> rid, op |-> pending[rid].op, kind |-> "resolved",
                 value |-> "void"]
  /\ UNCHANGED <<state, isLoading, connectionError, lastSynced, now,
                 loadInFlight, issued>>
  /\ UNCHANGED authVars
  /\ UNCHANGED sideVars

\* mutant: a mutation that cannot reach the backend raises the blocking
\* connection-error screen, as the full load does
handleApiCallCatchBlocks(rid, error) ==
  /\ syncStatus' = "error"
  /\ connectionError' = IF error = ConnectionUnavailable THEN error ELSE connectionError
  /\ pending' = Without(pending, rid)
  /\ delivered' = [rid |-> rid, ok |-> FALSE, http |-> TRUE, body |-> Null, error |-> error]
  /\ outcome' = [rid |-> rid, op |-> pending[rid].op, kind |-> "rejected",
                 value |-> error]
  /\ UNCHANGED <<state, isLoading, lastSynced, now, loadInFlight, issued>>
  /\ UNCHANGED authVars
  /\ UNCHANGED sideVars

\* handleApiCall after the await, the catch branch, for request rid and its error
handleApiCallCatch(rid, error) ==
  /\ syncStatus' = "error"
  /\ pending' = Without(pending, rid)
  /\ delivered' = [rid |-> rid, ok |-> FALSE, http |-> TRUE, body |-> Null, error |-> error]
  /\ outcome' = [rid |-> rid, op |-> pending[rid].op, kind |-> "rejected",
                 value |-> error]
  /\ UNCHANGED <<state, isLoading, connectionError, lastSynced, now,
                 loadInFlight, issued>>
  /\ UNCHANGED authVars
  /\ UNCHANGED sideVars

\* a mutation's round trip succeeds
MutationSucceeds ==
  \E rid \in DOMAIN pending : \E result \in Responses(pending[rid]) :
     /\ pending[rid].served => result = pending[rid].answer
     /\ handleApiCallThen(rid, result)
     /\ server' = IF pending[rid].served \/ IsSimulated(pending[rid].op)
                  THEN server
                  ELSE UpdateState(pending[rid].op, server, result)

\* a mutation's round trip fails
MutationFails ==
  \E rid \in DOMAIN pending : \E error \in ApiErrors :
     /\ CanFail(pending[rid])
     /\ handleApiCallCatch(rid, error)
     /\ server' = server

\* the messaging collaborator finishes a dispatch: the notification is sent,
\* or the dispatch fails; no handler is waiting for either
dispatchSettles ==
  \E rid \in DOMAIN mails : \E status \in {"sent", "failed"} :
     /\ mails[rid].status = "fired"
     /\ mails' = [mails EXCEPT ![rid].status = status]
     /\ UNCHANGED <<storeVars, authVars, pureVars>>

\* the backend handles request rid: it changes its state and fixes the answer,
\* which reaches the client in a later step
backendServes ==
  \E rid \in DOMAIN pending : \E result \in Responses(pending[rid]) :
     /\ ~pending[rid].served
     /\ ~IsSimulated(pending[rid].op)
     /\ pending' = [pending EXCEPT ![rid].served = TRUE, ![rid].answer = result]
     /\ server' = UpdateState(pending[rid].op, server, result)
     /\ UNCHANGED <<state, isLoading, connectionError, syncStatus, lastSynced, now,
                    loadInFlight, issued, delivered, outcome>>
     /\ UNCHANGED authVars
     /\ UNCHANGED sideVars

\* ------------------------------------------- the twenty mutations, issued
addItem == \E q \in 0..MaxQty : handleApiCallBegin("addItem", [totalQuantity |-> q])
editItem == \E itemData \in ItemVals : handleApiCallBegin("editItem", itemData)
deleteItem == \E itemId \in ItemIds : handleApiCallBegin("deleteItem", [id |-> itemId])
createUser == \E n \in Names : handleApiCallBegin("createUser", [fullName |-> n])
editUser == \E userData \in SecureUsers : handleApiCallBegin("editUser", userData)
deleteUser == \E userId \in UserIds : handleApiCallBegin("deleteUser", [id |-> userId])
approveUser == \E userId \in UserIds : handleApiCallBegin("approveUser", [id |-> userId])
denyUser == \E userId \in UserIds : handleApiCallBegin("denyUser", [id |-> userId])
requestBorrowItem ==
  \E u \in UserIds, i \in ItemIds :
     handleApiCallBegin("requestBorrowItem", [userId |-> u, itemId |-> i, quantity |-> MaxQty])
approveBorrowRequest ==
  \E logId \in LogIds : handleApiCallBegin("approveBorrowRequest", [id |-> logId])
denyBorrowRequest ==
  \E logId \in LogIds : handleApiCallBegin("denyBorrowRequest", [logId |-> logId])
returnItem ==
  \E borrowLog \in LogVals : handleApiCallBegin("returnItem", [borrowLog |-> borrowLog])
requestItemReturn == \E log \in LogVals : handleApiCallBegin("requestItemReturn", log)
markNotificationsAsRead ==
  \E ids \in SUBSET NotifIds : handleApiCallBegin("markNotificationsAsRead", [ids |-> ids])
addSuggestion ==
  \E t \in {"item", "feature"} : handleApiCallBegin("addSuggestion", [type |-> t])
approveItemSuggestion ==
  \E s \in SuggIds : handleApiCallBegin("approveItemSuggestion", [suggestionId |-> s])
approveFeatureSuggestion ==
  \E s \in SuggIds : handleApiCallBegin("approveFeatureSuggestion", [id |-> s])
denySuggestion ==
  \E s \in SuggIds : handleApiCallBegin("denySuggestion", [suggestionId |-> s])
importItems ==
  \E k \in 0..MaxImport : handleApiCallBegin("importItems", [count |-> k])
addComment ==
  \E s \in SuggIds : handleApiCallBegin("addComment", [suggestionId |-> s])

\* ---------------------------------------------------------- session storage
\* A storage entry is absent (getItem gives null) or a string.  A string is
\* modelled by what JSON.parse makes of it: [json |-> v] is the JSON text of
\* v, [raw |-> t] is text t that is no JSON.
Absent == [absent |-> TRUE]
EmptyString == [raw |-> ""]
Garbage == [raw |-> "{oops"]

JSONstringify(v) == [json |-> v]

\* JSON.parse: the value, or a SyntaxError
JSONparse(s) ==
  IF "json" \in DOMAIN s THEN [threw |-> FALSE, value |-> s.json]
  ELSE [threw |-> TRUE, value |-> Null]

\* if (serializedUser): null and '' are falsy
Truthy(s) == s # Absent /\ s # EmptyString

\* user && user.status === UserStatus.APPROVED
IsApprovedUser(user) ==
  /\ user # Null
  /\ "status" \in DOMAIN user
  /\ user.status = APPROVED

\* what the tab's session storage may hold when the page loads
SessionInputs ==
  {Absent, EmptyString, Garbage, JSONstringify(Null)}
    \cup {JSONstringify(u) : u \in SecureUsers}

\* inventoryState.users.find(u => u.id === id); Null when there is none
FindUser(users, id) ==
  IF \E k \in 1..Len(users) : users[k].id = id
  THEN users[CHOOSE k \in 1..Len(users) :
               /\ users[k].id = id
               /\ \A j \in 1..(k - 1) : users[j].id # id]
  ELSE Null

\* const { password, ...secureUser } = freshUser
StripPassword(u) == [f \in DOMAIN u \ {"password"} |-> u[f]]

\* -------------------------------------------------------------- AuthProvider
\* Effect 1, run once when AuthProvider mounts, which is when the gate opens.
\* Effect 2 runs in the same flush with currentUser still null and does
\* nothing; it is due again when effect 1 has set a user.
AuthEffect1 ==
  /\ Exposed
  /\ authIsLoading
  /\ LET serializedUser == session
         parsed == JSONparse(serializedUser)
     IN IF ~Truthy(serializedUser)
        THEN currentUser' = currentUser /\ session' = session
        ELSE IF parsed.threw
        THEN currentUser' = currentUser /\ session' = Absent
        ELSE IF IsApprovedUser(parsed.value)
        THEN currentUser' = parsed.value /\ session' = session
        ELSE currentUser' = currentUser /\ session' = Absent
  /\ heldRef' = IF currentUser' # currentUser THEN 1 - heldRef ELSE heldRef
  /\ authIsLoading' = FALSE
  /\ revalidate' = (currentUser' # Null)
  /\ UNCHANGED logins
  /\ UNCHANGED storeVars
  /\ UNCHANGED sideVars

\* mutant: re-validation checks presence only, not the status
AuthEffect2PresenceOnly ==
  /\ ~authIsLoading
  /\ revalidate
  /\ IF currentUser # Null /\ ~isLoading /\ Len(state.users) > 0
     THEN LET freshUser == FindUser(state.users, currentUser.id)
          IN IF freshUser = Null
             THEN /\ currentUser' = Null
                  /\ heldRef' = heldRef
                  /\ session' = Absent
                  /\ revalidate' = TRUE
             ELSE /\ currentUser' = StripPassword(freshUser)
                  /\ heldRef' = 1 - heldRef
                  /\ session' = JSONstringify(StripPassword(freshUser))
                  /\ revalidate' = TRUE
     ELSE /\ revalidate' = FALSE
          /\ UNCHANGED <<currentUser, heldRef, session>>
  /\ UNCHANGED <<authIsLoading, logins>>
  /\ UNCHANGED storeVars
  /\ UNCHANGED sideVars

\* mutant: re-validation holds and persists the fresh user as it is
AuthEffect2KeepsPassword ==
  /\ ~authIsLoading
  /\ revalidate
  /\ IF currentUser # Null /\ ~isLoading /\ Len(state.users) > 0
     THEN LET freshUser == FindUser(state.users, currentUser.id)
          IN IF freshUser = Null \/ freshUser.status # APPROVED
             THEN /\ currentUser' = Null
                  /\ heldRef' = heldRef
                  /\ session' = Absent
                  /\ revalidate' = TRUE
             ELSE /\ currentUser' = freshUser
                  /\ heldRef' = 1 - heldRef
                  /\ session' = JSONstringify(freshUser)
                  /\ revalidate' = TRUE
     ELSE /\ revalidate' = FALSE
          /\ UNCHANGED <<currentUser, heldRef, session>>
  /\ UNCHANGED <<authIsLoading, logins>>
  /\ UNCHANGED storeVars
  /\ UNCHANGED sideVars

\* mutant: re-validation of a user found APPROVED leaves the held user and
\* the stored entry as they were
AuthEffect2KeepsHeld ==
  /\ ~authIsLoading
  /\ revalidate
  /\ IF currentUser # Null /\ ~isLoading /\ Len(state.users) > 0
     THEN LET freshUser == FindUser(state.users, currentUser.id)
          IN IF freshUser = Null \/ freshUser.status # APPROVED
             THEN /\ currentUser' = Null
                  /\ heldRef' = heldRef
                  /\ session' = Absent
                  /\ revalidate' = TRUE
             ELSE /\ revalidate' = FALSE
                  /\ UNCHANGED <<currentUser, heldRef, session>>
     ELSE /\ revalidate' = FALSE
          /\ UNCHANGED <<currentUser, heldRef, session>>
  /\ UNCHANGED <<authIsLoading, logins>>
  /\ UNCHANGED storeVars
  /\ UNCHANGED sideVars

\* mutant: re-validation does not ask whether any user was loaded, so an
\* empty collection ends the session
AuthEffect2EmptyLogsOut ==
  /\ ~authIsLoading
  /\ revalidate
  /\ IF currentUser # Null /\ ~isLoading
     THEN LET freshUser == FindUser(state.users, currentUser.id)
          IN IF freshUser = Null \/ freshUser.status # APPROVED
             THEN /\ currentUser' = Null
                  /\ heldRef' = heldRef
                  /\ session' = Absent
                  /\ revalidate' = TRUE
             ELSE /\ currentUser' = StripPassword(freshUser)
                  /\ heldRef' = 1 - heldRef
                  /\ session' = JSONstringify(StripPassword(freshUser))
                  /\ revalidate' = TRUE
     ELSE /\ revalidate' = FALSE
          /\ UNCHANGED <<currentUser, heldRef, session>>
  /\ UNCHANGED <<authIsLoading, logins>>
  /\ UNCHANGED storeVars
  /\ UNCHANGED sideVars

\* Effect 2: re-validation of the held user against the loaded users.  Its
\* else branch holds a new object each time, so it leaves itself due.
AuthEffect2 ==
  /\ ~authIsLoading
  /\ revalidate
  /\ IF currentUser # Null /\ ~isLoading /\ Len(state.users) > 0
     THEN LET freshUser == FindUser(state.users, currentUser.id)
          IN IF freshUser = Null \/ freshUser.status # APPROVED
             THEN /\ currentUser' = Null
                  /\ heldRef' = heldRef
                  /\ session' = Absent
                  /\ revalidate' = TRUE
             ELSE /\ currentUser' = StripPassword(freshUser)
                  /\ heldRef' = 1 - heldRef
                  /\ session' = JSONstringify(StripPassword(freshUser))
                  /\ revalidate' = TRUE
     ELSE /\ revalidate' = FALSE
          /\ UNCHANGED <<currentUser, heldRef, session>>
  /\ UNCHANGED <<authIsLoading, logins>>
  /\ UNCHANGED storeVars
  /\ UNCHANGED sideVars

\* users POST /auth/login may answer with
LoginUsers == SecureUsers \cup {WithPassword(u) : u \in SecureUsers}

\* login up to its await
login ==
  /\ Interactive
  /\ issued < MaxOps
  /\ issued' = issued + 1
  /\ \E identifier \in UserIds :
       logins' = logins @@ (issued' :> [identifier |-> identifier])
  /\ UNCHANGED <<state, isLoading, connectionError, syncStatus, lastSynced, now,
                 loadInFlight, pending, delivered, outcome, server>>
  /\ UNCHANGED <<currentUser, heldRef, authIsLoading, session, revalidate>>
  /\ UNCHANGED sideVars

\* login after the await, the try branch
loginThen(rid, user) ==
  /\ currentUser' = user
  /\ heldRef' = 1 - heldRef
  /\ session' = JSONstringify(user)
  /\ revalidate' = TRUE
  /\ logins' = Without(logins, rid)
  /\ delivered' = [rid |-> rid, ok |-> TRUE, http |-> TRUE, body |-> user, error |-> NoError]
  /\ outcome' = [rid |-> rid, op |-> "login", kind |-> "resolved", value |-> "true"]
  /\ UNCHANGED authIsLoading
  /\ UNCHANGED <<state, isLoading, connectionError, syncStatus, lastSynced, now,
                 loadInFlight, pending, issued, server>>
  /\ UNCHANGED sideVars

\* mutant: a failed login clears the session
loginCatchClears(rid, error) ==
  /\ logins' = Without(logins, rid)
  /\ delivered' = [rid |-> rid, ok |-> FALSE, http |-> TRUE, body |-> Null, error |-> error]
  /\ outcome' = [rid |-> rid, op |-> "login", kind |-> "rejected", value |-> error]
  /\ currentUser' = Null
  /\ heldRef' = heldRef
  /\ session' = Absent
  /\ UNCHANGED <<authIsLoading, revalidate>>
  /\ UNCHANGED <<state, isLoading, connectionError, syncStatus, lastSynced, now,
                 loadInFlight, pending, issued, server>>
  /\ UNCHANGED sideVars

\* login after the await, the catch branch: throw error
loginCatch(rid, error) ==
  /\ logins' = Without(logins, rid)
  /\ delivered' = [rid |-> rid, ok |-> FALSE, http |-> TRUE, body |-> Null, error |-> error]
  /\ outcome' = [rid |-> rid, op |-> "login", kind |-> "rejected", value |-> error]
  /\ UNCHANGED <<currentUser, heldRef, authIsLoading, session, revalidate>>
  /\ UNCHANGED <<state, isLoading, connectionError, syncStatus, lastSynced, now,
                 loadInFlight, pending, issued, server>>
  /\ UNCHANGED sideVars

LoginSucceeds ==
  \E rid \in DOMAIN logins : \E user \in LoginUsers : loginThen(rid, user)

LoginFails ==
  \E rid \in DOMAIN logins : \E error \in ApiErrors : loginCatch(rid, error)

\* mutant: logout forgets the stored entry
logoutKeepsEntry ==
  /\ Interactive
  /\ currentUser' = Null
  /\ heldRef' = heldRef
  /\ revalidate' = (revalidate \/ currentUser # Null)
  /\ outcome' = [rid |-> 0, op |-> "logout", kind |-> "resolved", value |-> "void"]
  /\ UNCHANGED <<authIsLoading, logins, session>>
  /\ UNCHANGED <<state, isLoading, connectionError, syncStatus, lastSynced, now,
                 loadInFlight, pending, issued, delivered, server>>
  /\ UNCHANGED sideVars

\* logout: setCurrentUser(null); sessionStorage.removeItem(...)
logout ==
  /\ Interactive
  /\ currentUser' = Null
  /\ heldRef' = heldRef
  /\ session' = Absent
  /\ revalidate' = (revalidate \/ currentUser # Null)
  /\ outcome' = [rid |-> 0, op |-> "logout", kind |-> "resolved", value |-> "void"]
  /\ UNCHANGED <<authIsLoading, logins>>
  /\ UNCHANGED <<state, isLoading, connectionError, syncStatus, lastSynced, now,
                 loadInFlight, pending, issued, delivered, server>>
  /\ UNCHANGED sideVars

\* ------------------------------------------------------------ specifications
NoCalls == [x \in {} |-> Null]

\* nothing is under way in the API client, the preferences or the dashboard
Idle == [idle |-> TRUE]

\* ------------------------------------------------------------------ apiFetch
\* Where a call is made: in a browser, whose engine decides the messages of
\* the TypeErrors the platform raises, on a page served from some host.  The
\* calls are made by effects and handlers, which run in a browser only; the
\* module itself is also evaluated where there is no window.
NoWindow == [undefined |-> TRUE]
Engines == {"chromium", "gecko", "webkit"}
Environments ==
  [engine : Engines,
   window : {[location |-> [hostname |-> h]] : h \in {"localhost", "lab-pc"}}]

BASE_URL(window) ==
  IF window # NoWindow
  THEN "http://" \o window.location.hostname \o ":8080/api"
  ELSE "http://localhost:8080/api"

\* the message of the TypeError fetch() rejects with when the endpoint cannot
\* be reached
FetchFailedMessage(engine) ==
  CASE engine = "chromium" -> "Failed to fetch"
    [] engine = "gecko" -> "NetworkError when attempting to fetch resource."
    [] engine = "webkit" -> "Load failed"

\* the message of the TypeError a Response raises when its body is read a
\* second time
BodyUsedMessage(engine) ==
  CASE engine = "chromium" -> "body stream already read"
    [] engine = "gecko" -> "Body has already been consumed."
    [] engine = "webkit" -> "Body is disturbed or locked"

\* A response body is a stream holding a text, or null (NoBody), which only a
\* response with a null-body status has.  Texts are modelled as the session
\* entries are: [json |-> v] is the JSON text of v, [raw |-> t] is no JSON.
NoBody == [nobody |-> TRUE]
ErrorBodies ==
  {JSONstringify([message |-> "Item not found"]),
   JSONstringify([message |-> "Failed to fetch"]),
   JSONstringify([error |-> "Bad Request"]),
   JSONstringify([message |-> "", error |-> "Bad Request"]),
   JSONstringify([timestamp |-> "now"]),
   JSONstringify(Null),
   [raw |-> "Internal Server Error"],
   [raw |-> ""]}
OkBodies ==
  {JSONstringify([id |-> "i1", availableQuantity |-> 1]), [raw |-> "<html>"], [raw |-> ""]}
NetworkFailure == [failed |-> TRUE]
NetworkOutcomes ==
  {NetworkFailure}
    \cup [status : {400, 404, 500}, body : ErrorBodies]
    \cup [status : {200, 201}, body : OkBodies \cup ErrorBodies]
    \cup {[status |-> 304, body |-> NoBody]}

Endpoints == {"/data", "/items"}
FetchCalls == [env : Environments, endpoint : Endpoints, network : NetworkOutcomes]

\* response.ok
ResponseOk(response) == response.status \in 200..299

\* the text a body holds; a null body reads as the empty text
TextOf(body) == IF body = NoBody THEN EmptyString ELSE body

\* errorData.<f> is truthy: the field is there and is not ''
HasTruthy(errorData, f) == f \in DOMAIN errorData /\ errorData[f] # ""

Thrown(name, message) == [settled |-> "rejected", name |-> name, message |-> message]
Resolved(value) == [settled |-> "resolved", value |-> value]

\* await response.json(): reads the stream to its end, then parses; the
\* stream stays read when the parse fails
ResponseJson(body) ==
  [bodyUsed |-> body # NoBody,
   threw |-> JSONparse(TextOf(body)).threw,
   value |-> JSONparse(TextOf(body)).value]

\* await response.text() on a body that has or has not been read before
ResponseText(env, body, bodyUsed) ==
  IF bodyUsed
  THEN [threw |-> TRUE, error |-> Thrown("TypeError", BodyUsedMessage(env.engine))]
  ELSE [threw |-> FALSE, text |-> IF "raw" \in DOMAIN TextOf(body)
                                  THEN TextOf(body).raw ELSE "{}"]

\* the branch if (!response.ok): what it throws
NotOkBranch(env, response) ==
  LET errorData == ResponseJson(response.body)
      textError == ResponseText(env, response.body, errorData.bodyUsed)
  IN IF ~errorData.threw /\ errorData.value # Null
     THEN Thrown("Error",
                 IF HasTruthy(errorData.value, "message") THEN errorData.value.message
                 ELSE IF HasTruthy(errorData.value, "error") THEN errorData.value.error
                 ELSE "An unknown server error occurred.")
     ELSE IF textError.threw
     THEN textError.error
     ELSE Thrown("Error",
                 IF textError.text # "" THEN textError.text
                 ELSE "HTTP Error: " \o ToString(response.status))

\* the lines after the branch: responseText ? JSON.parse(responseText) : {}
OkBranch(response) ==
  LET responseText == TextOf(response.body)
  IN IF ~Truthy(responseText)
     THEN Resolved([empty |-> "object"])
     ELSE IF JSONparse(responseText).threw
     THEN Thrown("SyntaxError", "Unexpected token")
     ELSE Resolved(JSONparse(responseText).value)

\* the message of helpfulError
HelpfulMessage(env) ==
  "Could not connect to the backend server at " \o BASE_URL(env.window)
     \o ". Is your Java backend server running?"

\* the outer catch: a TypeError with message 'Failed to fetch' is replaced by
\* helpfulError, every other error thrown again as it is
OuterCatch(env, error) ==
  IF error.name = "TypeError" /\ error.message = "Failed to fetch"
  THEN Thrown("Error", HelpfulMessage(env))
  ELSE error

\* what the promise apiFetch returns settles with
ApiFetch(call) ==
  IF call.network = NetworkFailure
  THEN OuterCatch(call.env, Thrown("TypeError", FetchFailedMessage(call.env.engine)))
  ELSE IF ~ResponseOk(call.network)
  THEN OuterCatch(call.env, NotOkBranch(call.env, call.network))
  ELSE IF OkBranch(call.network).settled = "rejected"
  THEN OuterCatch(call.env, OkBranch(call.network))
  ELSE OkBranch(call.network)

\* one call of apiFetch, from the fetch to the settlement of its promise
apiFetch ==
  /\ fetchCall # Idle
  /\ fetchResult = Idle
  /\ fetchResult' = ApiFetch(fetchCall)
  /\ UNCHANGED <<fetchCall, localStorage, settings, loadedSettings, dashboard, recentLogs>>
  /\ UNCHANGED viewVars
  /\ UNCHANGED <<storeVars, authVars, mails>>

\* ----------------------------------------------------------- settingsService
\* Preferences are saved as text, so a text is a sequence of characters here,
\* and an object the sequence of its <<key, value>> members, every key and
\* value a string.  The characters are a plain one and the two that
\* JSON.stringify escapes in a string.
Chars == {"a", "\"", "\\"}
Strings == {<<>>} \cup {<<c>> : c \in Chars} \cup {<<c, d>> : c \in Chars, d \in Chars}

TitleKey == <<"t", "i", "t", "l", "e">>
LogoUrlKey == <<"l", "o", "g", "o", "U", "r", "l">>

\* the object { title, logoUrl }
Settings(title, logoUrl) == << <<TitleKey, title>>, <<LogoUrlKey, logoUrl>> >>
SettingsValues == {Settings(title, logoUrl) : title \in Strings, logoUrl \in Strings}

\* mutant: a string is written between quotes as it is
EscapeNothing(str) == str

\* JSON.stringify of a string, between the quotes: a quote and a backslash
\* get a backslash in front
RECURSIVE Escape(_)
Escape(str) ==
  IF str = <<>> THEN <<>>
  ELSE (IF Head(str) \in {"\"", "\\"} THEN <<"\\", Head(str)>> ELSE <<Head(str)>>)
         \o Escape(Tail(str))

Quote(str) == <<"\"">> \o Escape(str) \o <<"\"">>

RECURSIVE StringifyMembers(_)
StringifyMembers(members) ==
  IF members = <<>> THEN <<>>
  ELSE Quote(Head(members)[1]) \o <<":">> \o Quote(Head(members)[2])
         \o (IF Tail(members) = <<>> THEN <<>> ELSE <<",">> \o StringifyMembers(Tail(members)))

\* JSON.stringify of an object of strings
JSONstringifyText(object) == <<"{">> \o StringifyMembers(object) \o <<"}">>

NoParse == [ok |-> FALSE, value |-> <<>>, next |-> 0]

\* JSON.parse inside a string, from position i to the closing quote
RECURSIVE ParseChars(_, _)
ParseChars(text, i) ==
  IF i > Len(text) THEN NoParse
  ELSE IF text[i] = "\"" THEN [ok |-> TRUE, value |-> <<>>, next |-> i + 1]
  ELSE IF text[i] = "\\"
  THEN IF i + 1 > Len(text) \/ text[i + 1] \notin {"\"", "\\"} THEN NoParse
       ELSE LET rest == ParseChars(text, i + 2)
            IN IF rest.ok THEN [rest EXCEPT !.value = <<text[i + 1]>> \o @] ELSE NoParse
  ELSE LET rest == ParseChars(text, i + 1)
       IN IF rest.ok THEN [rest EXCEPT !.value = <<text[i]>> \o @] ELSE NoParse

\* JSON.parse of a string that opens at position i
ParseString(text, i) ==
  IF i > Len(text) \/ text[i] # "\"" THEN NoParse ELSE ParseChars(text, i + 1)

\* JSON.parse of the members of an object, from position i to the closing brace
RECURSIVE ParseMembers(_, _)
ParseMembers(text, i) ==
  LET key == ParseString(text, i)
      value == ParseString(text, key.next + 1)
  IN IF ~key.ok \/ key.next > Len(text) \/ text[key.next] # ":" \/ ~value.ok
        \/ value.next > Len(text)
     THEN NoParse
     ELSE IF text[value.next] = "}"
     THEN [ok |-> TRUE, value |-> << <<key.value, value.value>> >>, next |-> value.next + 1]
     ELSE IF text[value.next] = ","
     THEN LET rest == ParseMembers(text, value.next + 1)
          IN IF rest.ok THEN [rest EXCEPT !.value = << <<key.value, value.value>> >> \o @]
             ELSE NoParse
     ELSE NoParse

\* JSON.parse of a text: the object, or a SyntaxError
JSONparseText(text) ==
  IF Len(text) < 2 \/ text[1] # "{" THEN [threw |-> TRUE, value |-> <<>>]
  ELSE IF text = <<"{", "}">> THEN [threw |-> FALSE, value |-> <<>>]
  ELSE LET members == ParseMembers(text, 2)
       IN IF members.ok /\ members.next = Len(text) + 1
          THEN [threw |-> FALSE, value |-> members.value]
          ELSE [threw |-> TRUE, value |-> <<>>]

\* The storage as the page finds it: what it holds under SETTINGS_STORAGE_KEY
\* (Absent, or a text) and how it behaves: "ok"; "full", setItem throws;
\* "denied", every access throws; "no window", the code runs outside a browser.
StorageModes == {"ok", "full", "denied", "no window"}
BrokenText == [text |-> <<"{", "a">>]
StorageInputs == [item : {Absent, BrokenText}, mode : StorageModes]

\* saveSettings(settings)
saveSettings ==
  \E value \in SettingsValues :
     /\ localStorage # Idle
     /\ settings' = [value |-> value]
     /\ LET serializedSettings == JSONstringifyText(value)
        IN localStorage' = IF localStorage.mode = "ok"
                           THEN [localStorage EXCEPT !.item = [text |-> serializedSettings]]
                           ELSE localStorage
     /\ loadedSettings' = Idle
     /\ UNCHANGED <<fetchCall, fetchResult, dashboard, recentLogs>>
     /\ UNCHANGED viewVars
     /\ UNCHANGED <<storeVars, authVars, mails>>

\* what loadSettings() returns
LoadSettings(storage) ==
  IF storage.mode \in {"no window", "denied"} THEN Null
  ELSE LET serializedSettings == storage.item
       IN IF serializedSettings = Absent THEN Null
          ELSE IF JSONparseText(serializedSettings.text).threw THEN Null
          ELSE [value |-> JSONparseText(serializedSettings.text).value]

\* loadSettings()
loadSettings ==
  /\ localStorage # Idle
  /\ loadedSettings = Idle
  /\ loadedSettings' = LoadSettings(localStorage)
  /\ UNCHANGED <<localStorage, settings>>
  /\ UNCHANGED <<fetchCall, fetchResult, dashboard, recentLogs>>
  /\ UNCHANGED viewVars
  /\ UNCHANGED <<storeVars, authVars, mails>>

\* ----------------------------------------------------------- SettingsProvider
\* the title 'OliLab' and the empty logoUrl
DefaultTitle == <<"O", "l", "i", "L", "a", "b">>
defaultSettings == Settings(DefaultTitle, <<>>)

\* the titles and logo URLs a user chooses from, the defaults among them
ChosenTitles == {DefaultTitle, <<"a">>, <<"\"">>}
ChosenLogoUrls == {<<>>, <<"a">>}
ChosenSettings == {Settings(title, logoUrl) : title \in ChosenTitles,
                                             logoUrl \in ChosenLogoUrls}

\* Partial<Settings>: any of the two members
PartialSettings ==
  {<<>>} \cup {<< <<TitleKey, title>> >> : title \in ChosenTitles}
         \cup {<< <<LogoUrlKey, logoUrl>> >> : logoUrl \in ChosenLogoUrls}
         \cup ChosenSettings

\* the value object gives key, if any of its members has that key
HasKey(object, key) == \E k \in 1..Len(object) : object[k][1] = key
ValueOf(object, key) ==
  object[CHOOSE k \in 1..Len(object) :
           object[k][1] = key /\ \A j \in (k + 1)..Len(object) : object[j][1] # key][2]

\* { ...prevSettings, ...newSettings }
Spread(prevSettings, newSettings) ==
  [k \in 1..Len(prevSettings) |->
     IF HasKey(newSettings, prevSettings[k][1])
     THEN <<prevSettings[k][1], ValueOf(newSettings, prevSettings[k][1])>>
     ELSE prevSettings[k]]
    \o SelectSeq(newSettings, LAMBDA member : ~HasKey(prevSettings, member[1]))

\* the storage after saveSettings(value)
SaveSettings(storage, value) ==
  IF storage.mode = "ok"
  THEN [storage EXCEPT !.item = [text |-> JSONstringifyText(value)]]
  ELSE storage

\* what the page finds stored when it is opened: nothing, a broken text, or
\* settings saved on an earlier visit
ProviderStorages ==
  [item : {Absent, BrokenText} \cup {[text |-> JSONstringifyText(value)] :
                                       value \in ChosenSettings},
   mode : StorageModes]

\* The two effects as they run when SettingsProvider mounts: the first loads
\* and sets what was stored; the second, which still sees the defaults the
\* state was initialised with, saves nothing; it is due again when the first
\* has set the stored settings.
SettingsProviderMount ==
  /\ settingsEffects # Idle
  /\ settingsEffects.load
  /\ LET storedSettings == LoadSettings(localStorage)
     IN /\ settingsState' = IF storedSettings # Null THEN storedSettings ELSE settingsState
        /\ settingsEffects' = [load |-> FALSE, save |-> storedSettings # Null]
  /\ UNCHANGED <<localStorage, settings, loadedSettings>>
  /\ UNCHANGED <<fetchCall, fetchResult, dashboard, recentLogs, layout, redirect>>
  /\ UNCHANGED <<storeVars, authVars, mails>>

\* The second effect, run because settings changed
SettingsProviderSave ==
  /\ settingsEffects # Idle
  /\ ~settingsEffects.load /\ settingsEffects.save
  /\ localStorage' =
       IF JSONstringifyText(settingsState.value) # JSONstringifyText(defaultSettings)
       THEN SaveSettings(localStorage, settingsState.value)
       ELSE localStorage
  /\ settingsEffects' = [settingsEffects EXCEPT !.save = FALSE]
  /\ UNCHANGED <<settingsState, settings, loadedSettings>>
  /\ UNCHANGED <<fetchCall, fetchResult, dashboard, recentLogs, layout, redirect>>
  /\ UNCHANGED <<storeVars, authVars, mails>>

\* updateSettings(newSettings), called by a page once the effects have run
updateSettings ==
  \E newSettings \in PartialSettings :
     /\ settingsEffects = [load |-> FALSE, save |-> FALSE]
     /\ settingsState' = [value |-> Spread(settingsState.value, newSettings)]
     /\ settingsEffects' = [settingsEffects EXCEPT !.save = TRUE]
     /\ UNCHANGED <<localStorage, settings, loadedSettings>>
     /\ UNCHANGED <<fetchCall, fetchResult, dashboard, recentLogs, layout, redirect>>
     /\ UNCHANGED <<storeVars, authVars, mails>>

\* The page is opened again: SettingsProvider starts from useState(defaultSettings)
\* with both effects to run; the storage is what the last visit left
SettingsProviderReload ==
  /\ settingsEffects = [load |-> FALSE, save |-> FALSE]
  /\ settingsState' = [value |-> defaultSettings]
  /\ settingsEffects' = [load |-> TRUE, save |-> FALSE]
  /\ UNCHANGED <<localStorage, settings, loadedSettings>>
  /\ UNCHANGED <<fetchCall, fetchResult, dashboard, recentLogs, layout, redirect>>
  /\ UNCHANGED <<storeVars, authVars, mails>>

\* ------------------------------------------------------------------ AppLayout
\* A pathname is the sequence of its characters, as startsWith reads it.
LoginPath == <<"/", "l", "o", "g", "i", "n">>
SignupPath == <<"/", "s", "i", "g", "n", "u", "p">>
DashboardPath == <<"/", "d", "a", "s", "h", "b", "o", "a", "r", "d">>
LogPath == <<"/", "l", "o", "g">>
UsersPath == <<"/", "u", "s", "e", "r", "s">>
ReportsPath == <<"/", "r", "e", "p", "o", "r", "t", "s">>

publicPages == {LoginPath, SignupPath}
adminPages == {LogPath, UsersPath, ReportsPath}

\* the routes router.pathname is drawn from: the public and the admin pages,
\* a page under an admin page, and pages open to every member
Pathnames ==
  publicPages \cup adminPages
    \cup {UsersPath \o <<"/", "i", "d">>, DashboardPath, <<"/">>,
          <<"/", "i", "n", "v", "e", "n", "t", "o", "r", "y">>,
          <<"/", "p", "r", "o", "f", "i", "l", "e">>}

\* str.startsWith(prefix)
StartsWith(str, prefix) ==
  Len(prefix) <= Len(str) /\ SubSeq(str, 1, Len(prefix)) = prefix

\* what useAuth() and useRouter() hand a render: no user is held while the
\* guard is unresolved, and isAdmin is currentUser?.isAdmin
LayoutInputs ==
  {l \in [pathname : Pathnames, isLoading : BOOLEAN,
          isAuthenticated : BOOLEAN, isAdmin : BOOLEAN] :
     /\ l.isLoading => ~l.isAuthenticated
     /\ l.isAdmin => l.isAuthenticated}

NoRedirect == [path |-> <<>>]

\* the route the guard effect replaces the current one with
GuardRedirect(l) ==
  LET isPublicPage == l.pathname \in publicPages
      isAdminPage == \E p \in adminPages : StartsWith(l.pathname, p)
  IN IF l.isLoading THEN NoRedirect
     ELSE IF ~l.isAuthenticated /\ ~isPublicPage THEN [path |-> LoginPath]
     ELSE IF l.isAuthenticated /\ isAdminPage /\ ~l.isAdmin THEN [path |-> DashboardPath]
     ELSE NoRedirect

\* The guard effect, run after a render whose values it has not seen yet;
\* router.replace changes the route
AppLayout ==
  /\ layout # Idle
  /\ IF redirect = Idle THEN TRUE ELSE redirect.seen # layout
  /\ redirect' = [seen |-> layout, to |-> GuardRedirect(layout)]
  /\ layout' = IF GuardRedirect(layout) = NoRedirect THEN layout
               ELSE [layout EXCEPT !.pathname = GuardRedirect(layout).path]
  /\ UNCHANGED <<settingsState, settingsEffects>>
  /\ UNCHANGED <<fetchCall, fetchResult, localStorage, settings, loadedSettings,
                 dashboard, recentLogs>>
  /\ UNCHANGED <<storeVars, authVars, mails>>

\* useAuth() hands the layout new values: the guard resolves, a user logs in
\* or out
useAuth ==
  /\ layout # Idle
  /\ \E l \in LayoutInputs :
       /\ l.pathname = layout.pathname /\ ~l.isLoading
       /\ l # layout
       /\ layout' = l
  /\ UNCHANGED redirect
  /\ UNCHANGED <<settingsState, settingsEffects>>
  /\ UNCHANGED <<fetchCall, fetchResult, localStorage, settings, loadedSettings,
                 dashboard, recentLogs>>
  /\ UNCHANGED <<storeVars, authVars, mails>>

\* ------------------------------------------------------------------ Dashboard
\* The view reads of a log its itemId and userId, of an item its name, of a
\* user the full name.  A log may name an item or a user the snapshot lacks,
\* and a name may be the empty string: the client checks neither.
DashItems ==
  {<<>>,
   <<[id |-> "i1", name |-> "Beaker"]>>,
   <<[id |-> "i1", name |-> ""]>>,
   <<[id |-> "i1", name |-> "Beaker"], [id |-> "i2", name |-> "Flask"]>>}
DashUsers ==
  {<<>>,
   <<[id |-> "u1", fullName |-> "Ann"]>>,
   <<[id |-> "u1", fullName |-> ""]>>}
DashLogs == [id : {"l1"}, itemId : ItemIds, userId : UserIds]
MaxLogs == 6
DashboardStates ==
  [logs : SeqsUpTo(DashLogs, MaxLogs), items : DashItems, users : DashUsers]

\* state.items.find(i => i.id === id); Null when there is none
FindItem(items, id) ==
  IF \E k \in 1..Len(items) : items[k].id = id
  THEN items[CHOOSE k \in 1..Len(items) :
               /\ items[k].id = id
               /\ \A j \in 1..(k - 1) : items[j].id # id]
  ELSE Null

\* state.logs.slice(0, 5)
RecentCount == 5
SliceRecent(logs) ==
  [k \in 1..(IF Len(logs) < RecentCount THEN Len(logs) ELSE RecentCount) |-> logs[k]]

\* mutant: ?? in place of ||, so an empty name is shown as it is
RecentLogsNullish(snapshot) ==
  [k \in 1..Len(SliceRecent(snapshot.logs)) |->
     LET log == snapshot.logs[k]
         item == FindItem(snapshot.items, log.itemId)
         user == FindUser(snapshot.users, log.userId)
     IN [id |-> log.id, itemId |-> log.itemId, userId |-> log.userId,
         itemName |-> IF item # Null THEN item.name ELSE "N/A",
         userName |-> IF user # Null THEN user.fullName ELSE "N/A"]]

\* Dashboard.recentLogs: item?.name || 'N/A', user?.fullName || 'N/A'
RecentLogs(snapshot) ==
  [k \in 1..Len(SliceRecent(snapshot.logs)) |->
     LET log == snapshot.logs[k]
         item == FindItem(snapshot.items, log.itemId)
         user == FindUser(snapshot.users, log.userId)
     IN [id |-> log.id, itemId |-> log.itemId, userId |-> log.userId,
         itemName |-> IF item # Null /\ item.name # "" THEN item.name ELSE "N/A",
         userName |-> IF user # Null /\ user.fullName # "" THEN user.fullName ELSE "N/A"]]

\* Dashboard renders: the useMemo of recentLogs is computed
Dashboard ==
  /\ dashboard # Idle
  /\ recentLogs = Idle
  /\ recentLogs' = [rows |-> RecentLogs(dashboard)]
  /\ UNCHANGED <<dashboard, fetchCall, fetchResult, localStorage, settings, loadedSettings>>
  /\ UNCHANGED viewVars
  /\ UNCHANGED <<storeVars, authVars, mails>>

FetchIdle == fetchCall = Idle /\ fetchResult = Idle

SettingsIdle == localStorage = Idle /\ settings = Idle /\ loadedSettings = Idle

DashboardIdle == dashboard = Idle /\ recentLogs = Idle

ProviderIdle == settingsState = Idle /\ settingsEffects = Idle

LayoutIdle == layout = Idle /\ redirect = Idle

\* the providers as first rendered, loadData called by the mount effect
ProvidersInit ==
  /\ state = initialEmptyState
  /\ isLoading = TRUE
  /\ connectionError = NoError
  /\ syncStatus = "synced"
  /\ lastSynced = NeverSynced
  /\ now = 0
  /\ loadInFlight = TRUE
  /\ pending = NoCalls
  /\ issued = 0
  /\ delivered = [rid |-> 0, ok |-> TRUE, http |-> FALSE, body |-> Null, error |-> NoError]
  /\ outcome = [rid |-> 0, op |-> "none", kind |-> "none", value |-> "void"]
  /\ server \in InitialData
  /\ currentUser = Null
  /\ heldRef = 0
  /\ authIsLoading = TRUE
  /\ session \in SessionInputs
  /\ revalidate = FALSE
  /\ logins = NoCalls
  /\ mails = NoCalls

Init ==
  /\ ProvidersInit /\ FetchIdle /\ SettingsIdle /\ DashboardIdle
  /\ ProviderIdle /\ LayoutIdle

\* The store on its own: a visitor with no stored session, no login.  The
\* store reads nothing of the guard, so its protocol is checked here.
StoreInit == Init /\ session = Absent

StoreNext ==
  \/ loadDataOk \/ loadDataFail \/ handleRetry
  \/ AuthEffect1
  \/ addItem \/ editItem \/ deleteItem
  \/ createUser \/ editUser \/ deleteUser \/ approveUser \/ denyUser
  \/ requestBorrowItem \/ approveBorrowRequest \/ denyBorrowRequest
  \/ returnItem \/ requestItemReturn
  \/ markNotificationsAsRead
  \/ addSuggestion \/ approveItemSuggestion \/ approveFeatureSuggestion
  \/ denySuggestion \/ importItems \/ addComment
  \/ MutationSucceeds \/ MutationFails

Spec == StoreInit /\ [][StoreNext]_vars

\* The guard with the store: every stored session, login and logout, and the
\* mutations that write the users collection, the only one the guard reads.
AuthNext ==
  \/ loadDataOk \/ loadDataFail \/ handleRetry
  \/ AuthEffect1 \/ AuthEffect2
  \/ login \/ LoginSucceeds \/ LoginFails \/ logout
  \/ createUser \/ editUser \/ deleteUser \/ approveUser \/ denyUser
  \/ MutationSucceeds \/ MutationFails

AuthSpec == Init /\ [][AuthNext]_vars

\* The store with its backend: the backend handles a request in one step and
\* the answer arrives in another, so answers may arrive in an order that is
\* not the order in which the backend handled the requests.
BackendNext ==
  \/ loadDataOk \/ loadDataFail \/ handleRetry
  \/ AuthEffect1
  \/ editItem \/ deleteItem
  \/ approveBorrowRequest \/ returnItem
  \/ backendServes
  \/ MutationSucceeds \/ MutationFails

\* a backend that holds the laboratory's data from the start
BackendInit == StoreInit /\ server = LabState

BackendSpec == BackendInit /\ [][BackendNext]_vars

\* The mutations that fire a notification dispatch, with the messaging
\* collaborator that finishes each dispatch on its own.
MailNext ==
  \/ loadDataOk \/ loadDataFail \/ handleRetry
  \/ AuthEffect1
  \/ createUser \/ approveUser \/ denyUser
  \/ MutationSucceeds \/ MutationFails
  \/ dispatchSettles

MailSpec == StoreInit /\ [][MailNext]_vars

\* The API client on its own: one call of apiFetch for every environment,
\* endpoint and outcome of the network.
FetchInit ==
  /\ ProvidersInit /\ session = Absent /\ server = initialEmptyState
  /\ fetchCall \in FetchCalls /\ fetchResult = Idle
  /\ SettingsIdle /\ DashboardIdle /\ ProviderIdle /\ LayoutIdle

FetchNext == apiFetch

FetchSpec == FetchInit /\ [][FetchNext]_vars

\* The preferences on their own: saves and loads against every storage.
SettingsInit ==
  /\ ProvidersInit /\ session = Absent /\ server = initialEmptyState
  /\ localStorage \in StorageInputs /\ settings = Idle /\ loadedSettings = Idle
  /\ FetchIdle /\ DashboardIdle /\ ProviderIdle /\ LayoutIdle

SettingsNext == saveSettings \/ loadSettings

SettingsSpec == SettingsInit /\ [][SettingsNext]_vars

\* SettingsProvider on its own, over the storage an earlier visit left
ProviderInit ==
  /\ ProvidersInit /\ session = Absent /\ server = initialEmptyState
  /\ localStorage \in ProviderStorages /\ settings = Idle /\ loadedSettings = Idle
  /\ settingsState = [value |-> defaultSettings]
  /\ settingsEffects = [load |-> TRUE, save |-> FALSE]
  /\ FetchIdle /\ DashboardIdle /\ LayoutIdle

ProviderNext ==
  \/ SettingsProviderMount \/ SettingsProviderSave
  \/ updateSettings \/ SettingsProviderReload

ProviderSpec == ProviderInit /\ [][ProviderNext]_vars

\* The layout guard on its own: a visitor arrives at any route in any state
\* of the session guard
LayoutInit ==
  /\ ProvidersInit /\ session = Absent /\ server = initialEmptyState
  /\ layout \in LayoutInputs /\ redirect = Idle
  /\ FetchIdle /\ SettingsIdle /\ DashboardIdle /\ ProviderIdle

LayoutNext == AppLayout \/ useAuth

LayoutSpec == LayoutInit /\ [][LayoutNext]_vars

\* The dashboard on its own: one render for every snapshot of up to MaxLogs
\* logs, with items and users that resolve the logs' references or do not.
DashboardInit ==
  /\ ProvidersInit /\ session = Absent /\ server = initialEmptyState
  /\ dashboard \in DashboardStates /\ recentLogs = Idle
  /\ FetchIdle /\ SettingsIdle /\ ProviderIdle /\ LayoutIdle

DashboardNext == Dashboard

DashboardSpec == DashboardInit /\ [][DashboardNext]_vars

\* ------------------------------------------------------------------ claims
\* the requests a step settles, and the requests it issues
Settled == DOMAIN pending \ DOMAIN pending'
Issued == DOMAIN pending' \ DOMAIN pending

\* the step is loadData's success
LoadStep == loadInFlight /\ ~loadInFlight' /\ connectionError' = NoError

\* C1: every mutation marks the status 'syncing' in the step that issues its
\* one API call; the step in which the call succeeds applies the operation's
\* patch to the current snapshot, sets 'synced' and sets lastSynced to the
\* time of that step; no step issues or settles more than one call.
C1_MutationProtocol ==
  [][ /\ Cardinality(Issued) <= 1
      /\ Cardinality(Settled) <= 1
      /\ \A rid \in Issued :
            /\ rid = issued' /\ issued' = issued + 1
            /\ Settled = {}
            /\ syncStatus' = "syncing"
      /\ \A rid \in Settled :
            /\ Issued = {} /\ issued' = issued
            /\ delivered'.rid = rid
            /\ delivered'.ok =>
                  /\ state' = UpdateState(pending[rid].op, state, delivered'.body)
                  /\ syncStatus' = "synced"
                  /\ lastSynced' = now' /\ now' > now
                  /\ outcome'.kind = "resolved" /\ outcome'.rid = rid
    ]_vars

\* C1 witness: a borrow approval went through all three phases
C1_Witness ==
  /\ outcome.op = "approveBorrowRequest" /\ outcome.kind = "resolved"
  /\ syncStatus = "synced" /\ lastSynced = now /\ lastSynced > 1
  /\ state # LabState /\ pending = NoCalls

\* C2: the step in which a mutation's call fails sets the status 'error',
\* rejects the caller with the very error the API client threw, and leaves
\* the six collections and lastSynced as they were.
C2_FailurePropagates ==
  [][ \A rid \in Settled :
        ~delivered'.ok =>
          /\ syncStatus' = "error"
          /\ outcome' = [rid |-> rid, op |-> pending[rid].op, kind |-> "rejected",
                         value |-> delivered'.error]
          /\ delivered'.error \in ApiErrors
          /\ state' = state
          /\ lastSynced' = lastSynced
    ]_vars

\* C2 witness: a failed returnItem after an earlier successful mutation
C2_Witness ==
  /\ outcome.op = "returnItem" /\ outcome.kind = "rejected"
  /\ outcome.value = ConnectionUnavailable
  /\ syncStatus = "error" /\ lastSynced > NeverSynced /\ Len(state.items) = 2

\* C3 as stated: the snapshot changes only in the step that applies a
\* successful answer of the backend (or the full load), and what is written
\* is that answer.
C3_ServerConfirmedOnly ==
  [][ state' # state =>
        \/ LoadStep
        \/ \E rid \in Settled :
              /\ delivered'.ok /\ delivered'.rid = rid
              /\ delivered'.http
              /\ state' = UpdateState(pending[rid].op, state, delivered'.body)
    ]_vars

\* C3 amended: the snapshot changes only in the step that applies a
\* successful answer, and what is written is that answer; the answer is the
\* backend's for every mutation but markNotificationsAsRead, whose answer is
\* the echo of its own payload.
C3_NoOptimisticUpdate ==
  [][ state' # state =>
        \/ LoadStep
        \/ \E rid \in Settled :
              /\ delivered'.ok /\ delivered'.rid = rid
              /\ state' = UpdateState(pending[rid].op, state, delivered'.body)
              /\ \/ delivered'.http
                 \/ /\ pending[rid].op = "markNotificationsAsRead"
                    /\ delivered'.body = pending[rid].payload
    ]_vars

\* C3 witness: editItem asked for one quantity, the snapshot holds the answered one
C3_Witness ==
  /\ outcome.op = "editItem" /\ outcome.kind = "resolved"
  /\ delivered.rid = outcome.rid
  /\ delivered.body = [id |-> "i1", availableQuantity |-> 0]
  /\ state.items = <<[id |-> "i1", availableQuantity |-> 0]>>

\* C4: the step that applies approveBorrowRequest's answer replaces the log
\* by updatedLog and the item by updatedItem together, and touches no other
\* collection: no snapshot holds one of the two without the other.
C4_ApproveAtomic ==
  [][ \A rid \in Settled :
        (delivered'.ok /\ pending[rid].op = "approveBorrowRequest") =>
          /\ state'.logs = ReplaceById(state.logs, delivered'.body.updatedLog)
          /\ state'.items = ReplaceById(state.items, delivered'.body.updatedItem)
          /\ state'.users = state.users
          /\ state'.notifications = state.notifications
          /\ state'.suggestions = state.suggestions
          /\ state'.comments = state.comments
    ]_vars

\* C4 witness: log l1 and item i1 both hold the returned, changed values
C4_Witness ==
  /\ outcome.op = "approveBorrowRequest" /\ outcome.kind = "resolved"
  /\ delivered.rid = outcome.rid
  /\ delivered.body.updatedLog = [id |-> "l1", status |-> "APPROVED"]
  /\ delivered.body.updatedItem = [id |-> "i1", availableQuantity |-> 0]
  /\ state.logs = <<delivered.body.updatedLog>>
  /\ state.items = <<delivered.body.updatedItem>>

\* C5: the step that applies returnItem's answer puts returnLog in front of
\* the logs, replaces the borrow log by updatedBorrowLog and the item by
\* updatedItem, all three together.
C5_ReturnAtomic ==
  [][ \A rid \in Settled :
        (delivered'.ok /\ pending[rid].op = "returnItem") =>
          /\ state'.logs = <<delivered'.body.returnLog>>
                             \o ReplaceById(state.logs, delivered'.body.updatedBorrowLog)
          /\ state'.items = ReplaceById(state.items, delivered'.body.updatedItem)
    ]_vars

\* C5 witness: return log l2 in front, borrow log l1 and item i1 replaced
C5_Witness ==
  /\ outcome.op = "returnItem" /\ outcome.kind = "resolved"
  /\ delivered.rid = outcome.rid
  /\ state.logs = <<[id |-> "l2", status |-> "PENDING"], [id |-> "l1", status |-> "APPROVED"]>>
  /\ state.items = <<[id |-> "i1", availableQuantity |-> 0]>>
  /\ delivered.body.updatedBorrowLog = [id |-> "l1", status |-> "APPROVED"]

\* the held user is not, or not as APPROVED, among the loaded users
Revoked ==
  \/ FindUser(state.users, currentUser.id) = Null
  \/ FindUser(state.users, currentUser.id).status # APPROVED

\* C6 as stated: whenever the guard holds a user whom the loaded collection
\* lacks or shows not APPROVED, re-validation is due, and its run leaves the
\* guard Anonymous and the stored entry removed.
C6_RevalidationAnyCollection ==
  [][ /\ (~authIsLoading' /\ currentUser' # Null /\ Revoked') => revalidate'
      /\ (AuthEffect2 /\ currentUser # Null /\ Revoked) =>
            (currentUser' = Null /\ session' = Absent)
    ]_vars

\* C6 amended: the same, for a loaded collection that is not empty.
C6_Revalidation ==
  [][ /\ (~authIsLoading' /\ currentUser' # Null /\ Len(state'.users) > 0 /\ Revoked')
            => revalidate'
      /\ (AuthEffect2 /\ currentUser # Null /\ Len(state.users) > 0 /\ Revoked) =>
            (currentUser' = Null /\ session' = Absent)
    ]_vars

\* C6 witness: a session restored for u2, whom the loaded collection shows
\* PENDING, has been ended without any call by the user
C6_Witness ==
  /\ ~authIsLoading /\ currentUser = Null /\ session = Absent
  /\ revalidate /\ outcome.op = "none"
  /\ state = LabState

\* C7 as stated: effect 1 restores an entry that parses to an APPROVED user
\* and keeps it, removes every other entry that is present, and in all cases
\* ends Unresolved with the guard Anonymous unless restored.
C7_SessionRestore ==
  [][ (authIsLoading /\ ~authIsLoading') =>
        IF session = Absent
        THEN currentUser' = Null /\ session' = Absent
        ELSE IF ~JSONparse(session).threw /\ IsApprovedUser(JSONparse(session).value)
        THEN currentUser' = JSONparse(session).value /\ session' = session
        ELSE currentUser' = Null /\ session' = Absent
    ]_vars

\* C8 as stated, in its weakest reading: once a login has resolved with an
\* APPROVED user carrying no credential, and no call has settled since, the
\* guard is Authenticated as that user and a session entry is stored.  (The
\* claim asks more: that the entry equals the returned user.)
C8_LoginAuthenticates ==
  (/\ outcome.op = "login" /\ outcome.kind = "resolved"
   /\ delivered.rid = outcome.rid
   /\ IsApprovedUser(delivered.body)
   /\ "password" \notin DOMAIN delivered.body)
    => (/\ currentUser # Null
        /\ currentUser.id = delivered.body.id
        /\ session # Absent)

\* C9: the step in which a login's call fails rejects the caller with the
\* error the API client threw and leaves the held user and the stored entry
\* as they were, so an Anonymous guard stays Anonymous.
C9_LoginFailure ==
  [][ \A rid \in DOMAIN logins \ DOMAIN logins' :
        ~delivered'.ok =>
          /\ outcome' = [rid |-> rid, op |-> "login", kind |-> "rejected",
                         value |-> delivered'.error]
          /\ delivered'.rid = rid /\ delivered'.error \in ApiErrors
          /\ currentUser' = currentUser
          /\ session' = session
    ]_vars

\* C9 witness: a rejected login, the guard Anonymous, nothing stored
C9_Witness ==
  /\ outcome.op = "login" /\ outcome.kind = "rejected"
  /\ outcome.value = RequestFailed
  /\ currentUser = Null /\ session = Absent /\ ~authIsLoading

\* C10: logout can be called in every state of the resolved guard; the held
\* user is then null and the stored entry absent as long as logout is the
\* last call settled, and the step issues no round trip and delivers none.
C10_Logout ==
  [][ /\ Interactive => ENABLED logout
      /\ outcome'.op = "logout" =>
            /\ currentUser' = Null /\ session' = Absent
            /\ outcome'.kind = "resolved"
      /\ (outcome'.op = "logout" /\ outcome # outcome') =>
            /\ issued' = issued /\ logins' = logins /\ pending' = pending
            /\ delivered' = delivered
    ]_vars

\* C10 witness: logout after a restored session, with a login still in flight
C10_Witness ==
  /\ outcome.op = "logout" /\ currentUser = Null /\ session = Absent
  /\ revalidate /\ DOMAIN logins # {}

\* the held user or the stored entry carries the credential field
HasCredential ==
  \/ "password" \in DOMAIN currentUser
  \/ ("json" \in DOMAIN session /\ "password" \in DOMAIN session.json)

\* C11 as stated: in every reachable state neither the held user nor the
\* stored entry contains the password field.
C11_NoCredentialHeld == ~HasCredential

\* C11 amended: the credential enters the held user or the stored entry only
\* in the step that applies a login answer which itself carries it; and a
\* re-validation that holds a fresh user holds and stores it stripped, also
\* when the loaded copy carries the credential.
C11_CredentialOnlyFromLogin ==
  [][ /\ (HasCredential' /\ ~HasCredential) =>
            \E rid \in DOMAIN logins \ DOMAIN logins' :
               /\ delivered'.ok /\ delivered'.rid = rid
               /\ "password" \in DOMAIN delivered'.body
      /\ (AuthEffect2 /\ currentUser' # Null /\ revalidate') =>
            /\ "password" \notin DOMAIN currentUser'
            /\ session' = JSONstringify(currentUser')
    ]_vars

\* C11 witness: the loaded copy of u1 carries the credential, the held user
\* and the stored entry are that copy without it
C11_Witness ==
  /\ currentUser # Null /\ ~HasCredential
  /\ "password" \in DOMAIN FindUser(state.users, currentUser.id)
  /\ currentUser = StripPassword(FindUser(state.users, currentUser.id))
  /\ session = JSONstringify(currentUser)
  /\ outcome.op = "login" /\ outcome.kind = "resolved"

\* C12: the guard's startup resolution does not wait for the full load: it
\* has left Unresolved before a load attempt ends, so in every state in
\* which the load has failed the guard is Anonymous or Authenticated.
C12_ResolvedBeforeLoadEnds == (connectionError # NoError) => ~authIsLoading

\* C13: the sync status is that of the round trip attempted last (request
\* number `issued`): 'syncing' from its issue until it settles, then 'synced'
\* or 'error' as it ended; the settlement of an earlier round trip does not
\* change what the status says of the latest one.
C13_StatusOfLatestRoundTrip ==
  [][ /\ \A rid \in Issued : syncStatus' = "syncing"
      /\ \A rid \in Settled :
            IF rid = issued
            THEN syncStatus' = (IF delivered'.ok THEN "synced" ELSE "error")
            ELSE IF issued \in DOMAIN pending
            THEN syncStatus' = "syncing"
            ELSE syncStatus' = syncStatus
    ]_vars

\* every entry of xs that has e's id is e
HoldsEntity(xs, e) == \A k \in 1..Len(xs) : xs[k].id = e.id => xs[k] = e

\* C14: the step that applies a successful answer leaves every entity the
\* answer patches at the answer's value, whichever calls were issued or
\* applied before it: the value applied last is the one the snapshot holds,
\* and no answer is dropped for having been overtaken.
C14_LastWriteWins ==
  [][ \A rid \in Settled :
        delivered'.ok =>
          LET op == pending[rid].op
              res == delivered'.body
          IN /\ op = "editItem" => HoldsEntity(state'.items, res)
             /\ op = "approveBorrowRequest" =>
                   /\ HoldsEntity(state'.items, res.updatedItem)
                   /\ HoldsEntity(state'.logs, res.updatedLog)
             /\ op = "returnItem" =>
                   /\ HoldsEntity(state'.items, res.updatedItem)
                   /\ HoldsEntity(Tail(state'.logs), res.updatedBorrowLog)
                   /\ Len(state'.logs) = Len(state.logs) + 1
    ]_vars

\* C14 witness: approveBorrowRequest (call 1) and returnItem (call 2) both
\* patched log l1 and item i1; call 2 was applied first, call 1 last, and
\* the snapshot holds call 1's values
C14_Witness ==
  /\ pending = NoCalls /\ issued = 2 /\ lastSynced = 3
  /\ outcome.rid = 1 /\ outcome.op = "approveBorrowRequest"
  /\ outcome.kind = "resolved" /\ delivered.rid = 1
  /\ Len(state.logs) = 2 /\ state.logs[1].id = "l2"
  /\ delivered.body.updatedLog = [id |-> "l1", status |-> "PENDING"]
  /\ delivered.body.updatedItem = [id |-> "i1", availableQuantity |-> 0]
  /\ state.logs[2] = delivered.body.updatedLog
  /\ state.items = <<delivered.body.updatedItem>>

Collections == {"items", "users", "logs", "notifications", "suggestions", "comments"}

\* every entity of the snapshot is an entity of the backend's state
EntitiesAgree(snap, srv) ==
  \A c \in Collections : \A k \in 1..Len(snap[c]) :
     \E j \in 1..Len(srv[c]) : srv[c][j] = snap[c][k]

\* C15: once the state is exposed, no round trip is in flight and every call
\* issued has succeeded (each success advances lastSynced by one), every
\* entity of the snapshot equals the backend's current value of it.
C15_ConsistentWithServer ==
  (/\ ~isLoading /\ connectionError = NoError
   /\ pending = NoCalls
   /\ lastSynced = issued + 1)
    => EntitiesAgree(state, server)

\* the loading indicator or the connection-error screen is what is rendered
Blocked == isLoading \/ connectionError # NoError

\* C16: while a load is pending, and after a load failed until a retry
\* succeeds, the consumers are not rendered (the guard below the store has
\* not even started), the snapshot is the empty initial state and no
\* mutation has been issued; a mutation is issued only once a load succeeded.
C16_GatedUntilLoaded ==
  [][ /\ Blocked' =>
            /\ state' = initialEmptyState
            /\ authIsLoading'
            /\ issued' = 0 /\ pending' = NoCalls
      /\ Issued # {} => (~Blocked /\ lastSynced > NeverSynced)
    ]_vars

\* C16 witness: the backend holds data, the load failed, the error screen
\* blocks and the snapshot is still empty
C16_Witness ==
  /\ ~isLoading /\ connectionError = ConnectionUnavailable
  /\ server = LabState /\ state = initialEmptyState
  /\ authIsLoading /\ issued = 0

\* C17: a failed load leaves its error message and retry is offered; a retry
\* clears the message, re-enters loading and issues the load again; a load
\* that succeeds puts the backend's state in the snapshot, sets 'synced' and
\* lastSynced; every load attempt ends loading.
C17_LoadAndRetry ==
  [][ /\ (~isLoading /\ connectionError # NoError) => ENABLED handleRetry
      /\ (~loadInFlight /\ loadInFlight') =>
            /\ connectionError # NoError /\ connectionError' = NoError
            /\ isLoading' /\ state' = state
      /\ (loadInFlight /\ ~loadInFlight') =>
            /\ ~isLoading'
            /\ \/ /\ connectionError' \in ApiErrors
                  /\ state' = state /\ lastSynced' = lastSynced
               \/ /\ connectionError' = NoError
                  /\ state' = server
                  /\ syncStatus' = "synced"
                  /\ lastSynced' = now' /\ now' > now
    ]_vars

\* C17 witness: a retry after a failed load is in flight
C17_Witness ==
  /\ isLoading /\ loadInFlight /\ connectionError = NoError
  /\ syncStatus = "error" /\ lastSynced = NeverSynced

\* C18: the step that applies a successful deleteItem or deleteUser whose id
\* is not in the collection leaves the snapshot as it was and resolves; and
\* applying any deletion answer a second time changes nothing more.
C18_DeleteIdempotent ==
  [][ \A rid \in Settled :
        (delivered'.ok /\ pending[rid].op \in {"deleteItem", "deleteUser"}) =>
          LET op == pending[rid].op
              xs == IF op = "deleteItem" THEN state.items ELSE state.users
              id == delivered'.body.id
          IN /\ (\A k \in 1..Len(xs) : xs[k].id # id) => state' = state
             /\ UpdateState(op, state', delivered'.body) = state'
             /\ outcome'.kind = "resolved" /\ syncStatus' = "synced"
    ]_vars

\* C18 witness: deleteItem answered with i2, which the snapshot never held;
\* the call resolved and the snapshot is the loaded one
C18_Witness ==
  /\ outcome.op = "deleteItem" /\ outcome.kind = "resolved"
  /\ delivered.rid = outcome.rid /\ delivered.body.id = "i2"
  /\ issued = 1 /\ state = LabState /\ syncStatus = "synced"

\* C19: issuing addItem sets 'syncing' and leaves the snapshot; the step that
\* applies its successful answer sets 'synced' and adds the answered item,
\* whole and as answered, as one new entry after the items already held,
\* leaving those items and the five other collections as they were.
C19_AddItem ==
  [][ /\ \A rid \in Issued :
            pending'[rid].op = "addItem" =>
              (syncStatus' = "syncing" /\ state' = state)
      /\ \A rid \in Settled :
            (delivered'.ok /\ pending[rid].op = "addItem") =>
              /\ syncStatus' = "synced"
              /\ Len(state'.items) = Len(state.items) + 1
              /\ SubSeq(state'.items, 1, Len(state.items)) = state.items
              /\ state'.items[Len(state'.items)] = delivered'.body
              /\ \A c \in Collections \ {"items"} : state'[c] = state[c]
    ]_vars

\* C19 witness: the loaded items plus item i2 with the quantity the backend
\* assigned
C19_Witness ==
  /\ outcome.op = "addItem" /\ outcome.kind = "resolved"
  /\ delivered.rid = outcome.rid
  /\ delivered.body = [id |-> "i2", availableQuantity |-> 0]
  /\ state.items = <<[id |-> "i1", availableQuantity |-> 1], delivered.body>>
  /\ syncStatus = "synced" /\ pending = NoCalls

\* C20 as stated, in its weakest reading: the step that applies a successful
\* approveBorrowRequest strictly decreases the available quantity of the
\* answered item in the snapshot and leaves it at zero or more.
C20_ApproveDecrements ==
  [][ \A rid \in Settled :
        (delivered'.ok /\ pending[rid].op = "approveBorrowRequest") =>
          \A k \in 1..Len(state.items) :
             state.items[k].id = delivered'.body.updatedItem.id =>
               /\ state'.items[k].availableQuantity < state.items[k].availableQuantity
               /\ state'.items[k].availableQuantity >= 0
    ]_vars

\* C20 amended: the step that applies a successful approveBorrowRequest gives
\* the answered item the available quantity the backend answered, whatever
\* quantity the snapshot held, and leaves the quantity of every other item.
C20_ApproveWritesAnsweredQuantity ==
  [][ \A rid \in Settled :
        (delivered'.ok /\ pending[rid].op = "approveBorrowRequest") =>
          /\ Len(state'.items) = Len(state.items)
          /\ \A k \in 1..Len(state.items) :
                state'.items[k].availableQuantity =
                  IF state.items[k].id = delivered'.body.updatedItem.id
                  THEN delivered'.body.updatedItem.availableQuantity
                  ELSE state.items[k].availableQuantity
    ]_vars

\* C20 witness: the snapshot held i1 with quantity 1, the approval was
\* answered with quantity 1 again, and that is what the snapshot holds
C20_Witness ==
  /\ outcome.op = "approveBorrowRequest" /\ outcome.kind = "resolved"
  /\ delivered.rid = outcome.rid /\ issued = 1
  /\ delivered.body.updatedItem = [id |-> "i1", availableQuantity |-> 1]
  /\ delivered.body.updatedLog = [id |-> "l1", status |-> "APPROVED"]
  /\ state.items = <<[id |-> "i1", availableQuantity |-> 1]>>
  /\ state.logs = <<[id |-> "l1", status |-> "APPROVED"]>>

\* C21: the step that applies createUser's answer appends the returned user
\* to the users and puts the returned notification in front of the
\* notifications, both together, changes no other collection, and the
\* mutation resolves to the id the backend gave the new user.
C21_CreateUser ==
  [][ \A rid \in Settled :
        (delivered'.ok /\ pending[rid].op = "createUser") =>
          /\ state'.users = Append(state.users, delivered'.body.newUser)
          /\ state'.notifications =
               <<delivered'.body.newNotification>> \o state.notifications
          /\ state'.items = state.items
          /\ state'.logs = state.logs
          /\ state'.suggestions = state.suggestions
          /\ state'.comments = state.comments
          /\ outcome'.rid = rid /\ outcome'.kind = "resolved"
          /\ outcome'.value = delivered'.body.newUser.id
    ]_vars

\* C21 witness: two users were created in an empty lab; the second answer
\* brought user u2 and notification n2, and the snapshot holds u2 after u1
\* and n2 in front of n1, and the call resolved to "u2"
C21_Witness ==
  /\ outcome.op = "createUser" /\ outcome.kind = "resolved"
  /\ delivered.rid = outcome.rid /\ delivered.ok
  /\ delivered.body.newUser.id = "u2" /\ delivered.body.newNotification.id = "n2"
  /\ outcome.value = "u2"
  /\ Len(state.users) = 2 /\ state.users[1].id = "u1"
  /\ state.users[2] = delivered.body.newUser
  /\ Len(state.notifications) = 2
  /\ state.notifications[1] = delivered.body.newNotification
  /\ state.notifications[2].id = "n1"
  /\ state.items = <<>> /\ state.logs = <<>>

\* C22: the step that applies approveItemSuggestion's answer replaces the
\* suggestion by updatedSuggestion and appends newItem to the items; the step
\* that applies denySuggestion's answer replaces the suggestion by
\* updatedSuggestion and puts newComment in front of the comments.  Each does
\* both together and changes no other collection.
C22_SuggestionDecided ==
  [][ \A rid \in Settled :
        /\ (delivered'.ok /\ pending[rid].op = "approveItemSuggestion") =>
             /\ state'.suggestions =
                  ReplaceById(state.suggestions, delivered'.body.updatedSuggestion)
             /\ state'.items = Append(state.items, delivered'.body.newItem)
             /\ state'.comments = state.comments
             /\ state'.users = state.users
             /\ state'.logs = state.logs
             /\ state'.notifications = state.notifications
        /\ (delivered'.ok /\ pending[rid].op = "denySuggestion") =>
             /\ state'.suggestions =
                  ReplaceById(state.suggestions, delivered'.body.updatedSuggestion)
             /\ state'.comments = <<delivered'.body.newComment>> \o state.comments
             /\ state'.items = state.items
             /\ state'.users = state.users
             /\ state'.logs = state.logs
             /\ state'.notifications = state.notifications
    ]_vars

\* C22 witness: with the lab loaded, suggestion s1 was approved as item i2 and
\* then denied with comment c1: the snapshot holds i2 after i1, the comment,
\* and s1 as the second answer gave it
C22_Witness ==
  /\ outcome.op = "denySuggestion" /\ outcome.kind = "resolved"
  /\ delivered.rid = outcome.rid /\ delivered.ok /\ issued = 2 /\ pending = NoCalls
  /\ delivered.body.updatedSuggestion = [id |-> "s1", status |-> "PENDING"]
  /\ delivered.body.newComment = [id |-> "c1"]
  /\ state.suggestions = <<[id |-> "s1", status |-> "PENDING"]>>
  /\ state.comments = <<[id |-> "c1"]>>
  /\ Len(state.items) = 2 /\ state.items[1].id = "i1" /\ state.items[2].id = "i2"
  /\ lastSynced = issued + 1

\* C23: when re-validation finds the held user in the loaded collection with
\* status APPROVED, the guard stays Authenticated, the held user becomes the
\* collection's copy of that user (less the credential), and the stored entry
\* is rewritten to that same value; and the answer of a successful editUser
\* leaves re-validation due, so the edit reaches the session.
C23_RevalidationRefreshes ==
  [][ /\ ( /\ AuthEffect2
           /\ currentUser # Null /\ ~isLoading /\ Len(state.users) > 0
           /\ IsApprovedUser(FindUser(state.users, currentUser.id)) ) =>
             /\ currentUser' # Null
             /\ currentUser' = StripPassword(FindUser(state.users, currentUser.id))
             /\ session' = JSONstringify(currentUser')
      /\ \A rid \in Settled :
            (delivered'.ok /\ pending[rid].op = "editUser") => revalidate'
    ]_vars

\* C23 witness: a session of u1 was restored, editUser was answered with u1
\* named "Bea", and the held user and the stored entry are the snapshot's u1
C23_Witness ==
  /\ outcome.op = "editUser" /\ outcome.kind = "resolved"
  /\ delivered.rid = outcome.rid /\ delivered.ok
  /\ delivered.body = [id |-> "u1", status |-> APPROVED, fullName |-> "Bea"]
  /\ FindUser(state.users, "u1") = delivered.body
  /\ Len(state.users) = 2
  /\ currentUser = delivered.body
  /\ session = JSONstringify(delivered.body)
  /\ logins = << >> /\ issued = 1

\* the dispatches a step sees fail
DispatchFailed ==
  {rid \in DOMAIN mails' :
     /\ mails'[rid].status = "failed"
     /\ (rid \in DOMAIN mails => mails[rid].status # "failed")}

C25_FailureNeverBlocks ==
  [][ \A rid \in Settled :
        IF delivered'.ok
        THEN syncStatus' = "synced"
        ELSE /\ syncStatus' = "error"
             /\ outcome'.rid = rid /\ outcome'.kind = "rejected"
             /\ outcome'.value = delivered'.error
             /\ connectionError = NoError /\ connectionError' = NoError
             /\ isLoading' = isLoading
             /\ Exposed /\ Exposed'
             /\ state' = state
             /\ lastSynced' = lastSynced
    ]_vars

\* C25 witness: of two mutations the first failed (lastSynced counts the load
\* and one success) and the second succeeded after it: the lab is still
\* shown, no connection error is set and the status is 'synced'
C25_Witness ==
  /\ issued = 2 /\ pending = NoCalls
  /\ outcome.rid = 2 /\ outcome.kind = "resolved" /\ delivered.rid = 2 /\ delivered.ok
  /\ lastSynced = 2
  /\ syncStatus = "synced"
  /\ Exposed /\ connectionError = NoError
  /\ Len(state.users) = 2 /\ Len(state.items) = 1

\* the call got an answer with a status that is no success
NotOkAnswered ==
  /\ fetchResult # Idle
  /\ fetchCall.network # NetworkFailure
  /\ ~ResponseOk(fetchCall.network)

\* C26 as stated: a call answered with a status that is no success fails with
\* the message of the JSON error body when the body is JSON and has one, with
\* the body's text when the body is no JSON and not empty, and with
\* "HTTP Error: <status>" when the body is empty.
C26_ErrorMessageFallbacks ==
  NotOkAnswered =>
    LET body == TextOf(fetchCall.network.body)
    IN /\ fetchResult.settled = "rejected"
       /\ ("json" \in DOMAIN body /\ body.json # Null /\ HasTruthy(body.json, "message"))
             => fetchResult.message = body.json.message
       /\ ("raw" \in DOMAIN body /\ body.raw # "")
             => fetchResult.message = body.raw
       /\ ("raw" \in DOMAIN body /\ body.raw = "")
             => fetchResult.message = "HTTP Error: " \o ToString(fetchCall.network.status)

\* C27 as stated: a call the network fails rejects with the connection message
\* that carries the resolved base URL, and a call that was answered never
\* rejects with that message.
C27_ConnectionUnavailable ==
  fetchResult # Idle =>
    IF fetchCall.network = NetworkFailure
    THEN /\ fetchResult.settled = "rejected"
         /\ fetchResult.message = HelpfulMessage(fetchCall.env)
    ELSE ~(fetchResult.settled = "rejected"
           /\ fetchResult.message = HelpfulMessage(fetchCall.env))

\* C28: markNotificationsAsRead sends no request and cannot fail: it settles
\* resolved, with its own id array as the answer and the backend untouched.
\* The step that applies it sets read on exactly the notifications whose id is
\* in the array, leaves every other notification and every other collection
\* as it was, keeps the notifications' number and order, and applying the
\* same answer once more changes nothing.
C28_MarkNotificationsAsRead ==
  [][ \A rid \in Settled :
        pending[rid].op = "markNotificationsAsRead" =>
          /\ delivered'.ok /\ ~delivered'.http
          /\ delivered'.body = pending[rid].payload
          /\ outcome'.rid = rid /\ outcome'.kind = "resolved"
          /\ server' = server
          /\ Len(state'.notifications) = Len(state.notifications)
          /\ \A k \in 1..Len(state.notifications) :
                state'.notifications[k] =
                  IF state.notifications[k].id \in pending[rid].payload.ids
                  THEN [state.notifications[k] EXCEPT !.read = TRUE]
                  ELSE state.notifications[k]
          /\ state'.items = state.items
          /\ state'.users = state.users
          /\ state'.logs = state.logs
          /\ state'.suggestions = state.suggestions
          /\ state'.comments = state.comments
          /\ markNotificationsAsReadUpdate(state', delivered'.body) = state'
    ]_vars

\* C28 witness: the snapshot held n2 in front of n1, both unread; n1 was
\* marked, and n1 is read and n2 is not
C28_Witness ==
  /\ outcome.op = "markNotificationsAsRead" /\ outcome.kind = "resolved"
  /\ delivered.rid = outcome.rid /\ delivered.ok /\ ~delivered.http
  /\ delivered.body = [ids |-> {"n1"}]
  /\ state.notifications = <<[id |-> "n2", read |-> FALSE], [id |-> "n1", read |-> TRUE]>>
  /\ server.notifications = <<[id |-> "n2", read |-> FALSE], [id |-> "n1", read |-> FALSE]>>

\* C29: a load that follows a save the storage took returns an object equal
\* to the one saved, whatever characters its title and logo URL hold; a load
\* from a storage that holds nothing, nothing having been saved, returns null.
C29_PreferencesRoundTrip ==
  loadedSettings # Idle =>
    /\ (settings # Idle /\ localStorage.mode = "ok") => loadedSettings = settings
    /\ (settings = Idle /\ localStorage.item = Absent) => loadedSettings = Null

\* C29 witness: a title of a letter and a quote and a logo URL of a backslash
\* were saved and loaded back
C29_Witness ==
  /\ settings = [value |-> Settings(<<"a", "\"">>, <<"\\">>)]
  /\ loadedSettings = settings
  /\ localStorage.mode = "ok"
  /\ localStorage.item = [text |-> JSONstringifyText(settings.value)]

\* C30 as stated: every recent log is rendered; a log whose itemId or userId
\* resolves to nothing gets the name "N/A", a log whose reference resolves
\* gets the item's name or the user's full name.
C30_DanglingIsNA ==
  recentLogs # Idle =>
    /\ Len(recentLogs.rows) = Len(SliceRecent(dashboard.logs))
    /\ \A k \in 1..Len(recentLogs.rows) :
          LET item == FindItem(dashboard.items, dashboard.logs[k].itemId)
              user == FindUser(dashboard.users, dashboard.logs[k].userId)
          IN /\ recentLogs.rows[k].itemName = IF item = Null THEN "N/A" ELSE item.name
             /\ recentLogs.rows[k].userName = IF user = Null THEN "N/A" ELSE user.fullName

\* C30 amended: every recent log is rendered, with the log's own fields; a log
\* whose reference resolves to an item or user with a name that is not empty
\* gets that name, and a log whose reference resolves to nothing, or to an
\* item or user whose name is the empty string, gets "N/A".
C30_DanglingOrNamelessIsNA ==
  recentLogs # Idle =>
    /\ Len(recentLogs.rows) = Len(SliceRecent(dashboard.logs))
    /\ \A k \in 1..Len(recentLogs.rows) :
          LET item == FindItem(dashboard.items, dashboard.logs[k].itemId)
              user == FindUser(dashboard.users, dashboard.logs[k].userId)
          IN /\ recentLogs.rows[k].id = dashboard.logs[k].id
             /\ recentLogs.rows[k].itemId = dashboard.logs[k].itemId
             /\ recentLogs.rows[k].userId = dashboard.logs[k].userId
             /\ recentLogs.rows[k].itemName =
                  IF item = Null THEN "N/A"
                  ELSE IF item.name = "" THEN "N/A" ELSE item.name
             /\ recentLogs.rows[k].userName =
                  IF user = Null THEN "N/A"
                  ELSE IF user.fullName = "" THEN "N/A" ELSE user.fullName

\* C30 witness: of six logs five are rendered; the first names item i1 and
\* user u1, which resolve, the second item i2 and user u2, which do not
C30_Witness ==
  /\ recentLogs # Idle
  /\ Len(dashboard.logs) = 6 /\ Len(recentLogs.rows) = 5
  /\ dashboard.items = <<[id |-> "i1", name |-> "Beaker"]>>
  /\ dashboard.users = <<[id |-> "u1", fullName |-> "Ann"]>>
  /\ recentLogs.rows[1] = [id |-> "l1", itemId |-> "i1", userId |-> "u1",
                           itemName |-> "Beaker", userName |-> "Ann"]
  /\ recentLogs.rows[2] = [id |-> "l1", itemId |-> "i2", userId |-> "u2",
                           itemName |-> "N/A", userName |-> "N/A"]

\* C31: effect 2 re-validates only when the load has finished and the loaded
\* user collection is not empty: run while the load is under way or the
\* collection is empty, it leaves the held user and the stored entry as they
\* are, so an Authenticated session stays Authenticated.
C31_NoRevalidationWhileEmpty ==
  [][ (AuthEffect2 /\ currentUser # Null /\ (isLoading \/ Len(state.users) = 0)) =>
        /\ currentUser' = currentUser
        /\ session' = session
    ]_vars

\* C31 witness: a session of u1 was restored over an empty lab, effect 2 has
\* run, and the user is still held and the entry still stored
C31_Witness ==
  /\ ~authIsLoading /\ ~isLoading /\ ~revalidate
  /\ state.users = <<>>
  /\ currentUser = [id |-> "u1", status |-> APPROVED, fullName |-> "Ann"]
  /\ session = JSONstringify(currentUser)
  /\ issued = 0

\* C32 as stated, in the step it rests on: re-validation comes to rest, so a
\* run of effect 2 that finds the held user present and APPROVED and leaves
\* the held user and the entry at the values they had does not make effect 2
\* due again.
C32_ResyncComesToRest ==
  [][ (AuthEffect2 /\ currentUser # Null
         /\ currentUser' = currentUser /\ session' = session) =>
        ~revalidate'
    ]_vars

\* the entities a successful answer writes: collection and id
Touched(op, res) ==
  CASE op \in {"addItem", "editItem", "deleteItem"} -> {<<"items", res.id>>}
    [] op = "createUser" -> {<<"users", res.newUser.id>>,
                             <<"notifications", res.newNotification.id>>}
    [] op \in {"editUser", "deleteUser", "approveUser", "denyUser"} ->
         {<<"users", res.id>>}
    [] op = "requestBorrowItem" -> {<<"logs", res.newLog.id>>,
                                    <<"notifications", res.newNotification.id>>}
    [] op = "approveBorrowRequest" -> {<<"logs", res.updatedLog.id>>,
                                       <<"items", res.updatedItem.id>>}
    [] op = "denyBorrowRequest" -> {<<"logs", res.id>>}
    [] op = "returnItem" -> {<<"logs", res.returnLog.id>>,
                             <<"logs", res.updatedBorrowLog.id>>,
                             <<"items", res.updatedItem.id>>}
    [] op = "requestItemReturn" -> {<<"logs", res.updatedLog.id>>,
                                    <<"notifications", res.newNotification.id>>}
    [] op = "markNotificationsAsRead" -> {<<"notifications", id>> : id \in res.ids}
    [] op \in {"addSuggestion", "approveFeatureSuggestion"} ->
         {<<"suggestions", res.id>>}
    [] op = "approveItemSuggestion" -> {<<"suggestions", res.updatedSuggestion.id>>,
                                        <<"items", res.newItem.id>>}
    [] op = "denySuggestion" -> {<<"suggestions", res.updatedSuggestion.id>>,
                                 <<"comments", res.newComment.id>>}
    [] op = "importItems" -> {<<"items", res[k].id>> : k \in 1..Len(res)}
    [] op = "addComment" -> {<<"comments", res.id>>}

\* the collections a mutation's patch adds an entity to
Adds(op) ==
  CASE op \in {"addItem", "importItems", "approveItemSuggestion"} -> {"items"}
    [] op = "createUser" -> {"users", "notifications"}
    [] op = "requestBorrowItem" -> {"logs", "notifications"}
    [] op = "returnItem" -> {"logs"}
    [] op = "requestItemReturn" -> {"notifications"}
    [] op = "addSuggestion" -> {"suggestions"}
    [] op \in {"denySuggestion", "addComment"} -> {"comments"}
    [] OTHER -> {}

\* xs and ys hold the same entities with the same values, each as often
SameEntities(xs, ys) ==
  /\ Len(xs) = Len(ys)
  /\ \A k \in 1..Len(xs) :
       Cardinality({j \in 1..Len(xs) : xs[j] = xs[k]})
         = Cardinality({j \in 1..Len(ys) : ys[j] = xs[k]})

\* the answers the call rid still in flight may get
AnswersOf(rid) ==
  {res \in Responses(pending[rid]) : pending[rid].served => res = pending[rid].answer}

\* C33 as stated: when a successful answer is applied while another call is in
\* flight whose answer touches other entities, applying the two answers in
\* this order and in the opposite order gives the same snapshot.
C33_SameSnapshotBothOrders ==
  [][ \A rid \in Settled : delivered'.ok =>
        \A other \in DOMAIN pending' : \A res \in AnswersOf(other) :
           Touched(pending[rid].op, delivered'.body)
              \cap Touched(pending[other].op, res) = {} =>
             UpdateState(pending[other].op, state', res)
               = UpdateState(pending[rid].op,
                             UpdateState(pending[other].op, state, res),
                             delivered'.body)
    ]_vars

\* C33: a successful answer is applied to the snapshot current when it
\* arrives, so no update is lost; and when another call is in flight whose
\* answer touches other entities, both arrival orders end with the same
\* entities at the same values in every collection, in the same order too
\* except in a collection to which both patches add an entity.
C33_DisjointPatchesCommute ==
  [][ \A rid \in Settled : delivered'.ok =>
        /\ state' = UpdateState(pending[rid].op, state, delivered'.body)
        /\ \A other \in DOMAIN pending' : \A res \in AnswersOf(other) :
              Touched(pending[rid].op, delivered'.body)
                 \cap Touched(pending[other].op, res) = {} =>
                LET thisFirst == UpdateState(pending[other].op, state', res)
                    otherFirst == UpdateState(pending[rid].op,
                                    UpdateState(pending[other].op, state, res),
                                    delivered'.body)
                IN \A c \in Collections :
                     IF c \in Adds(pending[rid].op) \cap Adds(pending[other].op)
                     THEN SameEntities(thisFirst[c], otherFirst[c])
                     ELSE thisFirst[c] = otherFirst[c]
    ]_vars

\* C33 witness: editUser of u1 (call 1) and editUser of u2 (call 2) overlapped;
\* call 2's answer was applied first, call 1's last, and the snapshot holds both
C33_Witness ==
  /\ pending = NoCalls /\ issued = 2 /\ lastSynced = 3
  /\ outcome.rid = 1 /\ outcome.op = "editUser" /\ outcome.kind = "resolved"
  /\ delivered.rid = 1 /\ delivered.body.id = "u1"
  /\ state.users = <<[id |-> "u1", status |-> APPROVED, fullName |-> "Bea"],
                     [id |-> "u2", status |-> APPROVED, fullName |-> "Bea"]>>

\* C34 as stated: while a mutation's round trip is in flight the status is
\* 'syncing', never 'synced'; with none in flight it is 'synced' or 'error'.
C34_SyncingWhileInFlight ==
  /\ DOMAIN pending # {} => syncStatus = "syncing"
  /\ DOMAIN pending = {} => syncStatus \in {"synced", "error"}

\* C35 as stated: once the guard has resolved, the persisted entry exists
\* exactly when a user is held, and it is then that user's serialization.
C35_EntryAgreesWithHeldUser ==
  ~authIsLoading =>
     /\ session # Absent <=> currentUser # Null
     /\ currentUser # Null => session = JSONstringify(currentUser)

\* C36 as stated: whenever a user is held, that user's status is APPROVED.
C36_HeldUserApproved ==
  currentUser # Null => currentUser.status = APPROVED

\* what opening the page again shows: the stored settings if they load, the
\* defaults if not
Restored(storage) ==
  IF LoadSettings(storage) # Null THEN LoadSettings(storage)
  ELSE [value |-> defaultSettings]

\* C37 as stated, in what it promises the user: mounting never writes the
\* storage; and where the storage takes writes, once the save effect has run
\* after a change of the settings, opening the page again restores the
\* settings in memory, whatever their values, the defaults included.
C37_StoredIsLastChosen ==
  [][ /\ (settingsEffects # Idle /\ settingsEffects.load) => localStorage' = localStorage
      /\ (settingsEffects # Idle /\ settingsEffects.save /\ ~settingsEffects'.save
            /\ localStorage.mode = "ok") =>
           Restored(localStorage') = settingsState'
    ]_vars

\* ys is xs but for the entities with e's id: same length, every entity with
\* another id in its place at its value, and nothing changed when xs holds
\* no entity with e's id
OthersKept(xs, ys, e) ==
  /\ Len(ys) = Len(xs)
  /\ \A k \in 1..Len(xs) : xs[k].id # e.id => ys[k] = xs[k]
  /\ (\A k \in 1..Len(xs) : xs[k].id # e.id) => ys = xs

\* C38: the step that applies the answer of a replace-by-id mutation keeps the
\* patched collection's length and every entity with another id in its place
\* at its value; an answered entity whose id the collection lacks is not
\* inserted; and the step ends with the status 'synced'.
C38_ReplaceById ==
  [][ \A rid \in Settled : delivered'.ok =>
        LET op == pending[rid].op
            res == delivered'.body
        IN /\ op = "editItem" => OthersKept(state.items, state'.items, res)
           /\ op \in {"editUser", "approveUser", "denyUser"} =>
                 OthersKept(state.users, state'.users, res)
           /\ op = "denyBorrowRequest" => OthersKept(state.logs, state'.logs, res)
           /\ op = "approveFeatureSuggestion" =>
                 OthersKept(state.suggestions, state'.suggestions, res)
           /\ op = "approveBorrowRequest" =>
                 /\ OthersKept(state.logs, state'.logs, res.updatedLog)
                 /\ OthersKept(state.items, state'.items, res.updatedItem)
           /\ op = "returnItem" =>
                 /\ OthersKept(state.logs, Tail(state'.logs), res.updatedBorrowLog)
                 /\ OthersKept(state.items, state'.items, res.updatedItem)
           /\ op = "requestItemReturn" =>
                 OthersKept(state.logs, state'.logs, res.updatedLog)
           /\ op \in {"editItem", "editUser", "approveUser", "denyUser",
                      "denyBorrowRequest", "approveFeatureSuggestion",
                      "approveBorrowRequest", "returnItem", "requestItemReturn"} =>
                 syncStatus' = "synced"
    ]_vars

\* C38 witness: editItem was answered with item i2, which the snapshot lacks:
\* the items are as loaded, i2 not among them, and the status is 'synced'
C38_Witness ==
  /\ pending = NoCalls /\ issued = 1 /\ lastSynced = 2
  /\ outcome.rid = 1 /\ outcome.op = "editItem" /\ outcome.kind = "resolved"
  /\ delivered.body = [id |-> "i2", availableQuantity |-> 0]
  /\ state.items = LabState.items
  /\ syncStatus = "synced"

\* the page is an admin page or lies under one
IsAdminArea(pathname) ==
  \E p \in adminPages : pathname = p \/ StartsWith(pathname, p \o <<"/">>)

\* C39 as stated: the guard effect issues no redirect while auth is
\* unresolved; it sends an unauthenticated visitor to /login exactly on the
\* pages that are not public; it sends an authenticated non-admin to
\* /dashboard exactly on an admin page or a page under one; a public page
\* never triggers the admin redirect, and an admin is never redirected by it.
C39_LayoutGuard ==
  redirect # Idle =>
    LET seen == redirect.seen
        to == redirect.to
    IN /\ seen.isLoading => to = NoRedirect
       /\ (~seen.isLoading /\ ~seen.isAuthenticated) =>
             /\ to \in {NoRedirect, [path |-> LoginPath]}
             /\ to = [path |-> LoginPath] <=> seen.pathname \notin publicPages
       /\ (seen.isAuthenticated /\ ~seen.isAdmin) =>
             /\ to \in {NoRedirect, [path |-> DashboardPath]}
             /\ to = [path |-> DashboardPath] <=> IsAdminArea(seen.pathname)
       /\ seen.pathname \in publicPages => to # [path |-> DashboardPath]
       /\ seen.isAdmin => to = NoRedirect

====
